---- MODULE Spec2Model ----
(***************************************************************************)
(* Model of csv-analysis: the regression package (linear transformations,  *)
(* least squares polynomial regression, R2) and the regression run of the  *)
(* command line driver.                                                    *)
(*                                                                         *)
(* float64 values are modelled exactly, without rounding: a finite value   *)
(* is q * e^r with q and r rational (r = 0 for an ordinary rational), and  *)
(* the IEEE 754 values NaN, +Inf and -Inf are values of their own.  A      *)
(* result that has no such form (ln 2, 1 + e, ...) is the value Unk: a     *)
(* float64 the model does not compute.  Negative zero is not modelled.     *)
(***************************************************************************)
EXTENDS Integers, Sequences, FiniteSets, TLC

----------------------------------------------------------------------------
(* Integer helpers *)

Abs(i) == IF i < 0 THEN -i ELSE i

Sign(i) == IF i < 0 THEN -1 ELSE IF i > 0 THEN 1 ELSE 0

RECURSIVE GCD(_, _)
GCD(a, b) == IF b = 0 THEN a ELSE GCD(b, a % b)

\* the largest r with r * r <= n, for n >= 0
RECURSIVE IFloorSqrt(_)
IFloorSqrt(n) ==
    IF n < 2 THEN n
    ELSE LET r == 2 * IFloorSqrt(n \div 4)
         IN IF (r + 1) <= n \div (r + 1) THEN r + 1 ELSE r

\* the integer square root of n >= 0 when n is a perfect square, else -1
ISqrt(n) == LET r == IFloorSqrt(n) IN IF r * r = n THEN r ELSE -1

\* k with 10^k = n for n >= 1, or -1 when n is no power of ten
RECURSIVE ILog10(_)
ILog10(n) ==
    IF n = 1 THEN 0
    ELSE IF n % 10 # 0 THEN -1
    ELSE LET k == ILog10(n \div 10) IN IF k < 0 THEN -1 ELSE k + 1

----------------------------------------------------------------------------
(* float64 values *)

\* the largest numerator, denominator or exponent part the model computes
\* with: a finite value beyond it is Unk
MaxMagnitude == 1000000000

\* x * y stays within MaxMagnitude
Fits(x, y) == x = 0 \/ Abs(y) <= MaxMagnitude \div Abs(x)

NaN  == [k |-> "nan",  n |-> 0, d |-> 1, en |-> 0, ed |-> 1]
PInf == [k |-> "pinf", n |-> 0, d |-> 1, en |-> 0, ed |-> 1]
NInf == [k |-> "ninf", n |-> 0, d |-> 1, en |-> 0, ed |-> 1]
\* a float64 the model does not compute
Unk  == [k |-> "unk",  n |-> 0, d |-> 1, en |-> 0, ed |-> 1]
\* NaN, +Inf or -Inf, the model does not compute which: an uncomputed value
\* divided by zero
UnkNonFin == [k |-> "nonfin", n |-> 0, d |-> 1, en |-> 0, ed |-> 1]

\* the finite value (n/d) * e^(en/ed), in lowest terms; d # 0 and ed # 0
Fin(n, d, en, ed) ==
    IF n = 0 THEN [k |-> "fin", n |-> 0, d |-> 1, en |-> 0, ed |-> 1]
    ELSE LET g  == GCD(Abs(n), Abs(d))
             s  == Sign(d)
             ge == IF en = 0 THEN Abs(ed) ELSE GCD(Abs(en), Abs(ed))
             se == Sign(ed)
         IN [k  |-> "fin",
             n  |-> s * (n \div g),  d  |-> Abs(d) \div g,
             en |-> se * (en \div ge), ed |-> Abs(ed) \div ge]

Rat(n, d) == Fin(n, d, 0, 1)
Num(n) == Fin(n, 1, 0, 1)
Zero == Num(0)
One == Num(1)
\* math.E
E == Fin(1, 1, 1, 1)

IsFin(a) == a.k = "fin"
IsUnk(a) == a.k \in {"unk", "nonfin"}
IsRat(a) == a.k = "fin" /\ a.en = 0
IsInt(a) == IsRat(a) /\ a.d = 1
IsZero(a) == a.k = "fin" /\ a.n = 0
\* NaN, +Inf or -Inf
IsNonFinite(a) == a.k \in {"nan", "pinf", "ninf", "nonfin"}
SameExp(a, b) == a.en = b.en /\ a.ed = b.ed
\* the sign of a finite or infinite value
FSign(a) == IF a.k = "pinf" THEN 1 ELSE IF a.k = "ninf" THEN -1 ELSE Sign(a.n)
SignedInf(s) == IF s < 0 THEN NInf ELSE PInf

FNeg(a) ==
    IF a.k = "fin" THEN [a EXCEPT !.n = -a.n]
    ELSE IF a.k = "pinf" THEN NInf
    ELSE IF a.k = "ninf" THEN PInf
    ELSE a

\* a + b
FAdd(a, b) ==
    IF a.k = "nan" \/ b.k = "nan" THEN NaN
    ELSE IF IsUnk(a) \/ IsUnk(b) THEN Unk
    ELSE IF a.k # "fin" /\ b.k # "fin" THEN (IF a.k = b.k THEN a ELSE NaN)
    ELSE IF a.k # "fin" THEN a
    ELSE IF b.k # "fin" THEN b
    ELSE IF a.n = 0 THEN b
    ELSE IF b.n = 0 THEN a
    ELSE IF ~SameExp(a, b) THEN Unk
    ELSE LET g == GCD(a.d, b.d)
         IN IF ~(Fits(a.n, b.d \div g) /\ Fits(b.n, a.d \div g)
                 /\ Fits(a.d \div g, b.d))
            THEN Unk
            ELSE
            Fin(a.n * (b.d \div g) + b.n * (a.d \div g), (a.d \div g) * b.d,
                a.en, a.ed)

\* a - b
FSub(a, b) == FAdd(a, FNeg(b))

\* the exponent parts of a and b can be added within MaxMagnitude
ExpFits(a, b) ==
    LET g == GCD(a.ed, b.ed)
    IN Fits(a.en, b.ed \div g) /\ Fits(b.en, a.ed \div g) /\ Fits(a.ed \div g, b.ed)

\* the exponent of a product: ra + s * rb as <<numerator, denominator>>
ExpSum(a, b, s) ==
    LET g == GCD(a.ed, b.ed)
    IN <<a.en * (b.ed \div g) + s * b.en * (a.ed \div g), (a.ed \div g) * b.ed>>

\* a * b
FMul(a, b) ==
    IF a.k = "nan" \/ b.k = "nan" THEN NaN
    ELSE IF IsUnk(a) \/ IsUnk(b) THEN Unk
    ELSE IF a.k # "fin" \/ b.k # "fin"
    THEN (IF IsZero(a) \/ IsZero(b) THEN NaN ELSE SignedInf(FSign(a) * FSign(b)))
    ELSE IF a.n = 0 \/ b.n = 0 THEN Zero
    ELSE LET g1 == GCD(Abs(a.n), b.d)
             g2 == GCD(Abs(b.n), a.d)
             e  == ExpSum(a, b, 1)
         IN IF ~(Fits(a.n \div g1, b.n \div g2) /\ Fits(a.d \div g2, b.d \div g1)
                 /\ ExpFits(a, b))
            THEN Unk
            ELSE
            Fin((a.n \div g1) * (b.n \div g2), (a.d \div g2) * (b.d \div g1),
                e[1], e[2])

\* a / b, with x/0 = +-Inf and 0/0 = NaN
FDiv(a, b) ==
    IF a.k = "nan" \/ b.k = "nan" THEN NaN
    ELSE IF IsUnk(a) \/ IsUnk(b)
    THEN (IF IsZero(b) \/ (a.k = "nonfin" /\ IsFin(b)) THEN UnkNonFin ELSE Unk)
    ELSE IF a.k # "fin" /\ b.k # "fin" THEN NaN
    ELSE IF a.k # "fin"
    THEN SignedInf(FSign(a) * (IF IsZero(b) THEN 1 ELSE FSign(b)))
    ELSE IF b.k # "fin" THEN Zero
    ELSE IF b.n = 0 THEN (IF a.n = 0 THEN NaN ELSE SignedInf(Sign(a.n)))
    ELSE IF a.n = 0 THEN Zero
    ELSE LET g1 == GCD(Abs(a.n), Abs(b.n))
             g2 == GCD(a.d, b.d)
             e  == ExpSum(a, b, -1)
         IN IF ~(Fits(a.n \div g1, b.d \div g2) /\ Fits(a.d \div g2, b.n \div g1)
                 /\ ExpFits(a, b))
            THEN Unk
            ELSE
            Fin(Sign(b.n) * (a.n \div g1) * (b.d \div g2),
                (a.d \div g2) * (Abs(b.n) \div g1), e[1], e[2])

\* a < b is known to hold: FALSE when either is NaN (as in IEEE 754) and
\* when the model cannot order the two values
FLess(a, b) ==
    IF a.k = "nan" \/ b.k = "nan" \/ IsUnk(a) \/ IsUnk(b) THEN FALSE
    ELSE IF a.k = "pinf" \/ b.k = "ninf" THEN FALSE
    ELSE IF a.k = "ninf" \/ b.k = "pinf" THEN TRUE
    ELSE IF a.n = 0 \/ b.n = 0 \/ Sign(a.n) # Sign(b.n) THEN Sign(a.n) < Sign(b.n)
    ELSE SameExp(a, b) /\ a.n * b.d < b.n * a.d

----------------------------------------------------------------------------
(* package math *)

\* x^k for a finite x and an integer k > 0
RECURSIVE FPowInt(_, _)
FPowInt(x, k) == IF k = 1 THEN x ELSE FMul(x, FPowInt(x, k - 1))

\* x^(p/q) for a finite x > 0 and q > 1: exact when x = e^r or, for q = 2,
\* when x is the square of a rational
FPowFrac(x, p, q) ==
    IF x.n = 1 /\ x.d = 1
    THEN (IF Fits(x.en, p) /\ Fits(x.ed, q) THEN Fin(1, 1, x.en * p, x.ed * q)
          ELSE Unk)
    ELSE IF q = 2 /\ ISqrt(x.n) > 0 /\ ISqrt(x.d) > 0
    THEN LET r == Fin(ISqrt(x.n), ISqrt(x.d), x.en, 2 * x.ed)
         IN IF p > 0 THEN FPowInt(r, p) ELSE FDiv(One, FPowInt(r, -p))
    ELSE Unk

\* math.Pow(x, y)
Pow(x, y) ==
    IF IsZero(y) THEN One
    ELSE IF x = One THEN One
    ELSE IF x.k = "nan" \/ y.k = "nan" THEN NaN
    ELSE IF IsUnk(x) \/ IsUnk(y) THEN Unk
    ELSE IF y.k # "fin" THEN Unk
    ELSE IF IsZero(x) THEN (IF y.n > 0 THEN Zero ELSE PInf)
    ELSE IF x.k = "pinf" THEN (IF y.n > 0 THEN PInf ELSE Zero)
    ELSE IF x.k = "ninf"
    THEN (IF y.n < 0 THEN Zero
          ELSE IF IsInt(y) /\ y.n % 2 = 1 THEN NInf ELSE PInf)
    ELSE IF y.en # 0 THEN Unk
    ELSE IF y.d = 1
    THEN (IF y.n > 0 THEN FPowInt(x, y.n) ELSE FDiv(One, FPowInt(x, -y.n)))
    ELSE IF x.n < 0 THEN NaN
    ELSE FPowFrac(x, y.n, y.d)

\* math.Log(x), the natural logarithm
Log(x) ==
    IF x.k \in {"nan", "pinf"} THEN x
    ELSE IF IsUnk(x) THEN Unk
    ELSE IF x.k = "ninf" THEN NaN
    ELSE IF x.n = 0 THEN NInf
    ELSE IF x.n < 0 THEN NaN
    ELSE IF x.n = 1 /\ x.d = 1 THEN Rat(x.en, x.ed)
    ELSE Unk

\* math.Log10(x)
Log10(x) ==
    IF x.k \in {"nan", "pinf"} THEN x
    ELSE IF IsUnk(x) THEN Unk
    ELSE IF x.k = "ninf" THEN NaN
    ELSE IF x.n = 0 THEN NInf
    ELSE IF x.n < 0 THEN NaN
    ELSE IF x.en # 0 THEN Unk
    ELSE IF x.d = 1 /\ ILog10(x.n) >= 0 THEN Num(ILog10(x.n))
    ELSE IF x.n = 1 /\ ILog10(x.d) >= 0 THEN Num(-ILog10(x.d))
    ELSE Unk

\* math.Sqrt(x)
Sqrt(x) ==
    IF x.k \in {"nan", "pinf"} THEN x
    ELSE IF IsUnk(x) THEN Unk
    ELSE IF x.k = "ninf" THEN NaN
    ELSE IF x.n = 0 THEN Zero
    ELSE IF x.n < 0 THEN NaN
    ELSE IF ISqrt(x.n) > 0 /\ ISqrt(x.d) > 0
    THEN Fin(ISqrt(x.n), ISqrt(x.d), x.en, 2 * x.ed)
    ELSE Unk

----------------------------------------------------------------------------
(* package regression: the linear transformations *)

Two == Num(2)
Ten == Num(10)

\* None: y = a + bx
None_FX(a, b, x) == FAdd(a, FMul(b, x))
None_FY(a, b, y) == FDiv(FSub(y, a), b)
None_FTransformX(x) == x
None_FTransformY(y) == y
None_FRestoreA(at) == at
None_FRestoreB(bt) == bt

\* Power: y = ax^b, log y = log a + b * log x
Power_FX(a, b, x) == FMul(a, Pow(x, b))
\* FY raises its own result variable x, which is 0 on entry, to the power b
Power_FY(a, b, y) == FMul(a, Pow(Zero, b))
Power_FTransformX(x) == Log10(x)
Power_FTransformY(y) == Log10(y)
\* FRestoreA with the base of the natural logarithm
Power_FRestoreA_baseE(at) == Pow(E, at)
Power_FRestoreA(at) == Pow(Ten, at)
Power_FRestoreB(bt) == bt

\* Exponential: y = aB^x, ln y = ln a + ln B * x
Exponential_FX(a, b, x) == FMul(a, Pow(b, x))
Exponential_FY(a, b, y) == FDiv(Log(FDiv(y, a)), Log(b))
Exponential_FTransformX(x) == x
Exponential_FTransformY(y) == Log(y)
Exponential_FRestoreA(at) == Pow(E, at)
\* FRestoreB of Exponential as the identity
Exponential_FRestoreB_identity(bt) == bt
Exponential_FRestoreB(bt) == Pow(E, bt)

\* LnPower: y = ln(ax^b), y = ln a + b * ln x
LnPower_FX(a, b, x) == FAdd(Log(a), FMul(b, Log(x)))
LnPower_FY(a, b, y) == Pow(FDiv(FSub(y, b), Log(a)), E)
LnPower_FTransformX(x) == Log(x)
LnPower_FTransformY(y) == y
LnPower_FRestoreA(at) == Pow(E, at)
LnPower_FRestoreB(bt) == bt

\* OneOverX: y = 1 / (a + bx), 1/y = a + bx
OneOverX_FX(a, b, x) == FDiv(One, FAdd(a, FMul(b, x)))
OneOverX_FY(a, b, y) == FDiv(FSub(FDiv(One, y), a), b)
OneOverX_FTransformX(x) == x
OneOverX_FTransformY(y) == FDiv(One, y)
OneOverX_FRestoreA(at) == at
OneOverX_FRestoreB(bt) == bt

\* BOverX: y = a + b / (1 + x)
BOverX_FX(a, b, x) == FAdd(a, FDiv(b, FAdd(One, x)))
BOverX_FY(a, b, y) == FSub(FDiv(One, FDiv(FSub(y, a), b)), One)
\* FTransformX as 1/x
BOverX_FTransformX_noShift(x) == FDiv(One, x)
BOverX_FTransformX(x) == FDiv(One, FAdd(One, x))
BOverX_FTransformY(y) == y
BOverX_FRestoreA(at) == at
BOverX_FRestoreB(bt) == bt

\* OneOverX2: y = 1 / (a + bx)^2, 1/sqrt(y) = a + bx
OneOverX2_FX(a, b, x) == FDiv(One, Pow(FAdd(a, FMul(b, x)), Two))
OneOverX2_FY(a, b, y) == FDiv(FSub(FDiv(One, Sqrt(y)), a), b)
OneOverX2_FTransformX(x) == x
OneOverX2_FTransformY(y) == FDiv(One, Sqrt(y))
OneOverX2_FRestoreA(at) == at
OneOverX2_FRestoreB(bt) == bt

\* Sqrt: y = a + b * sqrt(x)
Sqrt_FX(a, b, x) == FAdd(a, FMul(b, Sqrt(x)))
Sqrt_FY(a, b, y) == Pow(FDiv(FSub(y, a), b), Two)
Sqrt_FTransformX(x) == Sqrt(x)
Sqrt_FTransformY(y) == y
Sqrt_FRestoreA(at) == at
Sqrt_FRestoreB(bt) == bt

\* the implementations of LinearTransformation, in the order the driver fits them
Models == <<"None", "Exponential", "Power", "LnPower", "OneOverX", "BOverX",
            "OneOverX2", "Sqrt">>
ModelSet == {Models[i] : i \in 1..Len(Models)}

\* lt.FX(a, b, x)
FX(lt, a, b, x) ==
    CASE lt = "None" -> None_FX(a, b, x)
      [] lt = "Power" -> Power_FX(a, b, x)
      [] lt = "Exponential" -> Exponential_FX(a, b, x)
      [] lt = "LnPower" -> LnPower_FX(a, b, x)
      [] lt = "OneOverX" -> OneOverX_FX(a, b, x)
      [] lt = "BOverX" -> BOverX_FX(a, b, x)
      [] lt = "OneOverX2" -> OneOverX2_FX(a, b, x)
      [] lt = "Sqrt" -> Sqrt_FX(a, b, x)

\* lt.FY(a, b, y)
FY(lt, a, b, y) ==
    CASE lt = "None" -> None_FY(a, b, y)
      [] lt = "Power" -> Power_FY(a, b, y)
      [] lt = "Exponential" -> Exponential_FY(a, b, y)
      [] lt = "LnPower" -> LnPower_FY(a, b, y)
      [] lt = "OneOverX" -> OneOverX_FY(a, b, y)
      [] lt = "BOverX" -> BOverX_FY(a, b, y)
      [] lt = "OneOverX2" -> OneOverX2_FY(a, b, y)
      [] lt = "Sqrt" -> Sqrt_FY(a, b, y)

\* lt.FTransformX(x)
FTransformX(lt, x) ==
    CASE lt = "None" -> None_FTransformX(x)
      [] lt = "Power" -> Power_FTransformX(x)
      [] lt = "Exponential" -> Exponential_FTransformX(x)
      [] lt = "LnPower" -> LnPower_FTransformX(x)
      [] lt = "OneOverX" -> OneOverX_FTransformX(x)
      [] lt = "BOverX" -> BOverX_FTransformX(x)
      [] lt = "OneOverX2" -> OneOverX2_FTransformX(x)
      [] lt = "Sqrt" -> Sqrt_FTransformX(x)

\* lt.FTransformY(y)
FTransformY(lt, y) ==
    CASE lt = "None" -> None_FTransformY(y)
      [] lt = "Power" -> Power_FTransformY(y)
      [] lt = "Exponential" -> Exponential_FTransformY(y)
      [] lt = "LnPower" -> LnPower_FTransformY(y)
      [] lt = "OneOverX" -> OneOverX_FTransformY(y)
      [] lt = "BOverX" -> BOverX_FTransformY(y)
      [] lt = "OneOverX2" -> OneOverX2_FTransformY(y)
      [] lt = "Sqrt" -> Sqrt_FTransformY(y)

\* lt.FRestoreA(at)
FRestoreA(lt, at) ==
    CASE lt = "None" -> None_FRestoreA(at)
      [] lt = "Power" -> Power_FRestoreA(at)
      [] lt = "Exponential" -> Exponential_FRestoreA(at)
      [] lt = "LnPower" -> LnPower_FRestoreA(at)
      [] lt = "OneOverX" -> OneOverX_FRestoreA(at)
      [] lt = "BOverX" -> BOverX_FRestoreA(at)
      [] lt = "OneOverX2" -> OneOverX2_FRestoreA(at)
      [] lt = "Sqrt" -> Sqrt_FRestoreA(at)

\* lt.FRestoreB(bt)
FRestoreB(lt, bt) ==
    CASE lt = "None" -> None_FRestoreB(bt)
      [] lt = "Power" -> Power_FRestoreB(bt)
      [] lt = "Exponential" -> Exponential_FRestoreB(bt)
      [] lt = "LnPower" -> LnPower_FRestoreB(bt)
      [] lt = "OneOverX" -> OneOverX_FRestoreB(bt)
      [] lt = "BOverX" -> BOverX_FRestoreB(bt)
      [] lt = "OneOverX2" -> OneOverX2_FRestoreB(bt)
      [] lt = "Sqrt" -> Sqrt_FRestoreB(bt)

----------------------------------------------------------------------------
(* package regression: polynomial regression and R2 *)

\* the error values of the package; Nil is Go's nil error
Nil == "nil"
NotEnoughPoints == "Not enough points"
\* gonum's mat.Condition error of Solve: the matrix is singular
ConditionError == "matrix singular or near-singular"

\* the one element of a singleton set; {F(v) : v \in {e}} binds the value of
\* e to v once, where LET would evaluate e again at every use of v
The(S) == CHOOSE v \in S : TRUE

\* the sequence s as stored: its elements are values, computed once
Stored(s) == s \o <<>>

\* s[1] + ... + s[l], accumulated from 0 in index order
RECURSIVE SumTo(_, _)
SumTo(s, l) == IF l = 0 THEN Zero ELSE FAdd(SumTo(s, l - 1), s[l])

\* a slice of n zeros: make([]float64, n), mat.NewDense(n, 1, nil)
Zeros(n) == [i \in 1..n |-> Zero]

\* The func(float64) float64 values of the package are closures over the
\* solution s they were made from: the method that made it, and s.

\* Solution.LinearFunction
LinearFunction(s) == [f |-> "LinearFunction", s |-> s]

\* Solution.RegressionFunction
RegressionFunction(s) == [f |-> "RegressionFunction", s |-> s]

\* PolynomialSolution.PolynomialFunction, for a solution with A set
\* PolynomialFunction reading the coefficients high-to-low
PolynomialFunction_highToLow(s) ==
    [f |-> "PolynomialFunction",
     s |-> [s EXCEPT !.A = [i \in 1..Len(s.A) |-> s.A[Len(s.A) + 1 - i]]]]

\* PolynomialSolution.PolynomialFunction
PolynomialFunction(s) == [f |-> "PolynomialFunction", s |-> s]

\* fx(x): the body of the closure fx
Call(fx, x) ==
    CASE fx.f = "LinearFunction" -> FAdd(fx.s.At, FMul(fx.s.Bt, x))
      [] fx.f = "RegressionFunction" -> FX(fx.s.LT, fx.s.A, fx.s.B, x)
      [] fx.f = "PolynomialFunction" ->
            SumTo([i \in 1..Len(fx.s.A) |-> FMul(fx.s.A[i], Pow(x, Num(i - 1)))],
                  Len(fx.s.A))

\* sliceMean - Returns 1/n * sum of x
sliceMean(x) == FDiv(SumTo(x, Len(x)), Num(Len(x)))

\* r2Calc indexes y[i] for every index of x
r2CalcPanics(x, y) == Len(y) < Len(x)

\* r2Calc with the mean of x in place of the mean of y
r2Calc_meanOfX(x, y, fx) ==
    LET n == Len(x)
        ssReg(mean)   == SumTo([i \in 1..n |-> Pow(FSub(Call(fx, x[i]), mean), Two)], n)
        ssTotal(mean) == SumTo([i \in 1..n |-> Pow(FSub(y[i], mean), Two)], n)
    IN The({FDiv(ssReg(mean), ssTotal(mean)) : mean \in {sliceMean(x)}})

\* r2Calc with the total sum of squares taken over x
r2Calc_totalFromX(x, y, fx) ==
    LET n == Len(x)
        ssReg(mean)   == SumTo([i \in 1..n |-> Pow(FSub(Call(fx, x[i]), mean), Two)], n)
        ssTotal(mean) == SumTo([i \in 1..n |-> Pow(FSub(x[i], mean), Two)], n)
    IN The({FDiv(ssReg(mean), ssTotal(mean)) : mean \in {sliceMean(y)}})

\* r2Calc as the conventional 1 - SSres / SStot
r2Calc_conventional(x, y, fx) ==
    LET n == Len(x)
        ssRes         == SumTo([i \in 1..n |-> Pow(FSub(y[i], Call(fx, x[i])), Two)], n)
        ssTotal(mean) == SumTo([i \in 1..n |-> Pow(FSub(y[i], mean), Two)], n)
    IN The({FSub(One, FDiv(ssRes, ssTotal(mean))) : mean \in {sliceMean(y)}})

\* r2Calc with a guard on the division: 0 when the total sum of squares is 0
r2Calc_guarded(x, y, fx) ==
    LET n == Len(x)
        ssReg(mean)   == SumTo([i \in 1..n |-> Pow(FSub(Call(fx, x[i]), mean), Two)], n)
        ssTotal(mean) == SumTo([i \in 1..n |-> Pow(FSub(y[i], mean), Two)], n)
    IN The({IF IsZero(ssTotal(mean)) THEN Zero
            ELSE FDiv(ssReg(mean), ssTotal(mean)) : mean \in {sliceMean(y)}})

\* r2Calc with the total sum of squares multiplied by the mean
r2Calc_timesMean(x, y, fx) ==
    LET n == Len(x)
        ssReg(mean)   == SumTo([i \in 1..n |-> Pow(FSub(Call(fx, x[i]), mean), Two)], n)
        ssTotal(mean) == SumTo([i \in 1..n |-> Pow(FSub(y[i], mean), Two)], n)
    IN The({FDiv(ssReg(mean), FMul(mean, ssTotal(mean))) : mean \in {sliceMean(y)}})

\* r2Calc - sum (fx(x_i) - mean)^2 / sum (y_i - mean)^2 when it does not
\* panic; fx is a function value, see Call
r2Calc(x, y, fx) ==
    LET n == Len(x)
        ssReg(mean)   == SumTo([i \in 1..n |-> Pow(FSub(Call(fx, x[i]), mean), Two)], n)
        ssTotal(mean) == SumTo([i \in 1..n |-> Pow(FSub(y[i], mean), Two)], n)
    IN The({FDiv(ssReg(mean), ssTotal(mean)) : mean \in {sliceMean(y)}})

\* the moment matrix a of PolynomialRegression, rows and columns 1..m+1 for the
\* code's 0..m: the loop computes element (i, j) for j <= i and sets (j, i) too
\* the matrix a with the entries above the diagonal left at zero
MomentMatrix_lowerOnly(m, x) ==
    LET n == Len(x)
        sum(k) == SumTo([l \in 1..n |-> Pow(x[l], Num(k))], n)
    IN Stored([i \in 1..(m + 1) |-> Stored([j \in 1..(m + 1) |->
            IF j <= i THEN sum((i - 1) + (j - 1)) ELSE Zero])])

MomentMatrix(m, x) ==
    LET n == Len(x)
        sum(k) == SumTo([l \in 1..n |-> Pow(x[l], Num(k))], n)
    IN Stored([i \in 1..(m + 1) |-> Stored([j \in 1..(m + 1) |->
            IF j <= i THEN sum((i - 1) + (j - 1)) ELSE sum((j - 1) + (i - 1))])])

\* the vector b without the factor y[l]
MomentVector_noY(m, x, y) ==
    LET n == Len(x)
    IN Stored([i \in 1..(m + 1) |->
            SumTo([l \in 1..n |-> Pow(x[l], Num(i - 1))], n)])

\* the vector b of PolynomialRegression
MomentVector(m, x, y) ==
    LET n == Len(x)
    IN Stored([i \in 1..(m + 1) |->
            SumTo([l \in 1..n |-> FMul(y[l], Pow(x[l], Num(i - 1)))], n)])

\* the matrix a without its first row and without column j
Minor(a, j) ==
    Stored([r \in 1..(Len(a) - 1) |->
        Stored([c \in 1..(Len(a) - 1) |-> a[r + 1][IF c < j THEN c ELSE c + 1]])])

\* the determinant of a square matrix, expanded along the first row
RECURSIVE Det(_)
Det(a) ==
    IF Len(a) = 1 THEN a[1][1]
    ELSE SumTo([j \in 1..Len(a) |->
                   LET t == FMul(a[1][j], Det(Minor(a, j)))
                   IN IF j % 2 = 1 THEN t ELSE FNeg(t)], Len(a))

\* the matrix a with column i replaced by the vector b
ReplaceColumn(a, i, b) ==
    Stored([r \in 1..Len(a) |->
        Stored([c \in 1..Len(a) |-> IF c = i THEN b[r] ELSE a[r][c]])])

\* every entry of the matrix a and of the vector b is a computed finite value
AllFinite(a, b) ==
    \A r \in 1..Len(a) : IsFin(b[r]) /\ \A c \in 1..Len(a) : IsFin(a[r][c])

\* gonum's dst.Solve(a, b) for a square a: LU factorization; when the
\* determinant is 0 it returns the Condition error and leaves dst as it was,
\* else dst becomes the solution of a * dst = b.  With entries that are not
\* finite or not computed the outcome is not computed.
Solve(dst, a, b) ==
    IF ~AllFinite(a, b) THEN [x |-> [i \in 1..Len(a) |-> Unk], err |-> Nil]
    ELSE The({
        IF IsZero(det) THEN [x |-> dst, err |-> ConditionError]
        ELSE IF ~IsFin(det) THEN [x |-> [i \in 1..Len(a) |-> Unk], err |-> Nil]
        ELSE [x   |-> Stored([i \in 1..Len(a) |->
                          FDiv(Det(ReplaceColumn(a, i, b)), det)]),
              err |-> Nil]
        : det \in {Det(a)}})

\* PolynomialRegression with the test n < m in place of n < m+1
PolynomialRegression_offByOne(m, x, y) ==
    LET solved == Zeros(m + 1)
        n == Len(x)
    IN IF n < m
       THEN [solved |-> solved, err |-> NotEnoughPoints, a |-> <<>>, b |-> <<>>,
             panic |-> FALSE]
       ELSE IF Len(y) < n
       THEN [solved |-> solved, err |-> Nil, a |-> <<>>, b |-> <<>>,
             panic |-> TRUE]
       ELSE LET a == MomentMatrix(m, x)
                b == MomentVector(m, x, y)
            IN [solved |-> Solve(solved, a, b).x, err |-> Nil, a |-> a, b |-> b,
                panic |-> FALSE]

\* PolynomialRegression - Least Squares Polynomial Regression, m >= 0.
\* solved and err are what it returns; a and b are its local matrices when it
\* returns (empty when they were not built); panic: y[l] is out of range.
\* The error Solve returns is dropped.
PolynomialRegression(m, x, y) ==
    LET solved == Zeros(m + 1)
        n == Len(x)
    IN IF n < m + 1
       THEN [solved |-> solved, err |-> NotEnoughPoints, a |-> <<>>, b |-> <<>>,
             panic |-> FALSE]
       ELSE IF Len(y) < n
       THEN [solved |-> solved, err |-> Nil, a |-> <<>>, b |-> <<>>,
             panic |-> TRUE]
       ELSE LET a == MomentMatrix(m, x)
                b == MomentVector(m, x, y)
            IN [solved |-> Solve(solved, a, b).x, err |-> Nil, a |-> a, b |-> b,
                panic |-> FALSE]

\* the Solution of SolveTransformation after its copy loop
TransformedData(xo, yo, lt) ==
    LET n == Len(xo)
    IN [X  |-> xo,
        Y  |-> Stored([i \in 1..n |-> yo[i]]),
        Xt |-> Stored([i \in 1..n |-> FTransformX(lt, xo[i])]),
        Yt |-> Stored([i \in 1..n |-> FTransformY(lt, yo[i])]),
        At |-> Zero, Bt |-> Zero, A |-> Zero, B |-> Zero,
        LT |-> lt, R2t |-> Zero, R2 |-> Zero]

\* FittedSolution with A restored from Bt and B from At
FittedSolution_swapped(copy, s) ==
    [copy EXCEPT !.At = s[1], !.Bt = s[2],
                 !.A = FRestoreA(copy.LT, s[2]), !.B = FRestoreB(copy.LT, s[1])]

\* the Solution of SolveTransformation with the coefficients s of the fit set
FittedSolution(copy, s) ==
    [copy EXCEPT !.At = s[1], !.Bt = s[2],
                 !.A = FRestoreA(copy.LT, s[1]), !.B = FRestoreB(copy.LT, s[2])]

\* SolveTransformation with the coefficients set before the error is tested
SolveTransformation_setBeforeCheck(xo, yo, lt) ==
    IF Len(yo) < Len(xo)
    THEN [panic |-> TRUE, err |-> Nil,
          sol |-> [X |-> <<>>, Y |-> <<>>, Xt |-> <<>>, Yt |-> <<>>,
                   At |-> Zero, Bt |-> Zero, A |-> Zero, B |-> Zero,
                   LT |-> lt, R2t |-> Zero, R2 |-> Zero]]
    ELSE The({
        The({
            The({
                IF s.err # Nil
                THEN [panic |-> FALSE, err |-> s.err, sol |-> fit]
                ELSE [panic |-> FALSE, err |-> Nil,
                      sol |-> [fit EXCEPT
                         !.R2t = r2Calc(fit.Xt, fit.Yt, LinearFunction(fit)),
                         !.R2 = r2Calc(fit.X, fit.Y, RegressionFunction(fit))]]
                : fit \in {FittedSolution(copy, s.solved)}})
            : s \in {PolynomialRegression(1, copy.Xt, copy.Yt)}})
        : copy \in {TransformedData(xo, yo, lt)}})

\* SolveTransformation: the Solution and the error it returns; panic: yo is
\* shorter than xo and yo[i] is out of range
SolveTransformation(xo, yo, lt) ==
    IF Len(yo) < Len(xo)
    THEN [panic |-> TRUE, err |-> Nil,
          sol |-> [X |-> <<>>, Y |-> <<>>, Xt |-> <<>>, Yt |-> <<>>,
                   At |-> Zero, Bt |-> Zero, A |-> Zero, B |-> Zero,
                   LT |-> lt, R2t |-> Zero, R2 |-> Zero]]
    ELSE The({
        The({
            IF s.err # Nil
            THEN [panic |-> FALSE, err |-> s.err, sol |-> copy]
            ELSE The({
                [panic |-> FALSE, err |-> Nil,
                 sol |-> [fit EXCEPT
                    !.R2t = r2Calc(fit.Xt, fit.Yt, LinearFunction(fit)),
                    !.R2 = r2Calc(fit.X, fit.Y, RegressionFunction(fit))]]
                : fit \in {FittedSolution(copy, s.solved)}})
            : s \in {PolynomialRegression(1, copy.Xt, copy.Yt)}})
        : copy \in {TransformedData(xo, yo, lt)}})

\* SolvePolynomial: the PolynomialSolution and the error it returns; A = <<>>
\* is the nil matrix
SolvePolynomial(xo, yo, degree) ==
    IF Len(yo) < Len(xo)
    THEN [panic |-> TRUE, err |-> Nil,
          sol |-> [X |-> <<>>, Y |-> <<>>, Degree |-> degree, A |-> <<>>,
                   R2 |-> Zero]]
    ELSE The({
        The({
            IF s.err # Nil
            THEN [panic |-> FALSE, err |-> s.err, sol |-> copy]
            ELSE The({
                [panic |-> FALSE, err |-> Nil,
                 sol |-> [fit EXCEPT !.R2 =
                    r2Calc(fit.X, fit.Y, PolynomialFunction(fit))]]
                : fit \in {[copy EXCEPT !.A = s.solved]}})
            : s \in {PolynomialRegression(degree, copy.X, copy.Y)}})
        : copy \in {[X |-> xo, Y |-> [i \in 1..Len(xo) |-> yo[i]],
                     Degree |-> degree, A |-> <<>>, R2 |-> Zero]}})

----------------------------------------------------------------------------
(* The calls of the package: state and inputs *)

VARIABLES
    xo,     \* the x data handed to the package
    yo,     \* the y data handed to the package
    last,   \* the last call made: its name and its arguments other than the data
    reg,    \* what PolynomialRegression returned
    tsol,   \* what SolveTransformation returned
    psol,   \* what SolvePolynomial returned
    r2,     \* what r2Calc returned
    \* the regression run of the command line driver
    pc,         \* where main is
    regression, \* --regression was given
    review,     \* --review was given
    degree,     \* --degree
    li,         \* the index into ltList of the loop over the transformations
    err,        \* main's variable err
    stderr,     \* the number of ERROR lines printed to standard error
    fitted,     \* the transformations handed to SolveTransformation so far
    status,     \* the exit status, -1 while main runs
    \* single calls of the methods of a LinearTransformation
    fin,        \* the receiver and the arguments: lt, a, b and the value v
    fcall,      \* the methods called so far, in order
    fres,       \* what the last method called returned
    \* a sequence of calls of the package on data of their own
    hist,       \* the calls made so far: arguments and what was returned
    ncalls,     \* the number of calls made so far
    \* calls of SolveTransformation running at the same time on the same data
    heap,       \* the slices in memory: the elements at each address
    gor,        \* each running call: where it is, its model, what it returned
    wrote,      \* the writes made so far: the call and the address written
    \* package csvutil
    cf,         \* the CSVFiles: the records of each file, NoHeader, FilterZero
    columns,    \* the columns asked for
    fcols,      \* what the call of package csvutil returned
    nread,      \* the records getCSVColumns or getCSVRows read from its reader
    \* trimSlice
    trimIn,     \* the arguments: x, trimStart, trimEnd
    trimRes,    \* the slice and the error returned
    \* the command line of the driver
    opts        \* the options given: show, x, y, xtime, trimStart, trimEnd

pkgVars == <<last, reg, r2>>
driverVars == <<pc, regression, review, degree, li, err, stderr, fitted, status>>
fnVars == <<fin, fcall, fres>>
seqVars == <<hist, ncalls>>
concVars == <<heap, gor, wrote>>
csvVars == <<cf, columns, fcols, nread>>
trimVars == <<trimIn, trimRes>>
auxVars == <<fnVars, seqVars, concVars, csvVars, trimVars, opts>>
vars == <<xo, yo, last, reg, tsol, psol, r2,
          pc, regression, review, degree, li, err, stderr, fitted, status,
          fin, fcall, fres, hist, ncalls, heap, gor, wrote,
          cf, columns, fcols, nread, trimIn, trimRes, opts>>

\* the longest data set enumerated
MaxLen == 3
\* the highest polynomial degree called
MaxDegree == 2

\* the values the data sets are made of, x values in increasing order: small
\* integers, signed fractions, and values on which the logarithms, roots and
\* reciprocals of the transformations are exact
Families ==
    << [xs |-> <<Num(0), Num(1), Num(2)>>, ys |-> {Num(0), Num(1)}],
       [xs |-> <<Num(-1), Rat(1, 2), Num(3)>>, ys |-> {Num(-1), Rat(1, 2)}],
       [xs |-> <<Num(1), Num(10), Num(100)>>, ys |-> {Num(1), Num(10)}],
       [xs |-> <<Num(0), Num(1), Num(2)>>, ys |-> {One, E}],
       [xs |-> <<One, E, FMul(E, E)>>, ys |-> {Num(0), Num(1)}],
       [xs |-> <<Num(0), Num(1), Num(4)>>, ys |-> {Num(1), Rat(1, 4)}] >>

\* the data of the package's tests, TestPolynomialRegression and TestR2Calc
TestX == <<Num(0), Num(1), Num(2), Num(3), Num(4)>>
TestY == <<Num(0), Rat(9, 10), Num(2), Rat(31, 10), Num(4)>>
TestData == {<<TestX, TestX>>, <<TestX, TestY>>}

\* the data sets of n points over a family: x in nondecreasing order from the
\* first x of the family on
FamilyData(f, n) ==
    {<<[i \in 1..n |-> f.xs[ix[i]]], y>> :
        ix \in {g \in [1..n -> 1..Len(f.xs)] :
                   \A i \in 1..n : (i = 1 => g[i] = 1) /\
                                    (i < n => g[i] <= g[i + 1])},
        y \in [1..n -> f.ys]}

DataSets ==
    TestData \cup
    UNION {FamilyData(Families[f], n) : f \in 1..Len(Families), n \in 0..MaxLen}

\* the (a, b) of the fitted line handed to r2Calc, as TestR2Calc does
FitCoefs == {<<Num(0), Num(1)>>, <<Rat(-4, 100), Rat(102, 100)>>,
             <<Num(1), Num(0)>>, <<Num(0), Num(2)>>, <<Num(1), Num(-1)>>}

NoCall == [fn |-> "none", m |-> 0, lt |-> "None", fa |-> Zero, fb |-> Zero]
NoReg == [solved |-> <<>>, err |-> Nil, a |-> <<>>, b |-> <<>>, panic |-> FALSE]
NoSolution == [X |-> <<>>, Y |-> <<>>, Xt |-> <<>>, Yt |-> <<>>,
               At |-> Zero, Bt |-> Zero, A |-> Zero, B |-> Zero,
               LT |-> "None", R2t |-> Zero, R2 |-> Zero]
NoTsol == [panic |-> FALSE, err |-> Nil, sol |-> NoSolution]
NoPsol == [panic |-> FALSE, err |-> Nil,
           sol |-> [X |-> <<>>, Y |-> <<>>, Degree |-> 0, A |-> <<>>, R2 |-> Zero]]

\* main is not running
DriverIdle ==
    /\ pc = "idle" /\ regression = FALSE /\ review = FALSE /\ degree = 1
    /\ li = 0 /\ err = Nil /\ stderr = 0 /\ fitted = <<>> /\ status = -1

\* no method of a LinearTransformation is called on its own
FnIdle ==
    /\ fin = [lt |-> "None", a |-> Zero, b |-> Zero, v |-> Zero]
    /\ fcall = <<>>
    /\ fres = Zero

SeqIdle == hist = {} /\ ncalls = 0

ConcIdle == heap = <<>> /\ gor = <<>> /\ wrote = {}

NoColumns == [panic |-> FALSE, err |-> Nil, data |-> <<>>]

CsvIdle ==
    /\ cf = [Files |-> <<>>, NoHeader |-> FALSE, FilterZero |-> FALSE]
    /\ columns = <<>>
    /\ fcols = NoColumns
    /\ nread = 0

NoTrim == [err |-> Nil, data |-> <<>>]

TrimIdle ==
    /\ trimIn = [x |-> <<>>, trimStart |-> 0, trimEnd |-> 0]
    /\ trimRes = NoTrim

NoOptions == [show |-> FALSE, x |-> FALSE, y |-> FALSE, xtime |-> FALSE,
              trimStart |-> 0, trimEnd |-> 0]

AuxIdle ==
    FnIdle /\ SeqIdle /\ ConcIdle /\ CsvIdle /\ TrimIdle /\ opts = NoOptions

\* The package keeps no state between calls: every behaviour is one call on
\* one data set.
Init ==
    /\ \E d \in DataSets : xo = d[1] /\ yo = d[2]
    /\ last = NoCall
    /\ reg = NoReg
    /\ tsol = NoTsol
    /\ psol = NoPsol
    /\ r2 = Zero
    /\ DriverIdle
    /\ AuxIdle

\* a call of PolynomialRegression(m, xo, yo)
CallPolynomialRegression(m) ==
    /\ last = NoCall
    /\ last' = [NoCall EXCEPT !.fn = "PolynomialRegression", !.m = m]
    /\ reg' = PolynomialRegression(m, xo, yo)
    /\ tsol' = NoTsol /\ psol' = NoPsol /\ r2' = Zero
    /\ UNCHANGED <<xo, yo>>
    /\ UNCHANGED driverVars
    /\ UNCHANGED auxVars

\* a call of SolveTransformation(xo, yo, lt)
CallSolveTransformation(lt) ==
    /\ last = NoCall
    /\ last' = [NoCall EXCEPT !.fn = "SolveTransformation", !.lt = lt]
    /\ tsol' = SolveTransformation(xo, yo, lt)
    /\ reg' = NoReg /\ psol' = NoPsol /\ r2' = Zero
    /\ UNCHANGED <<xo, yo>>
    /\ UNCHANGED driverVars
    /\ UNCHANGED auxVars

\* a call of SolvePolynomial(xo, yo, m)
CallSolvePolynomial(m) ==
    /\ last = NoCall
    /\ last' = [NoCall EXCEPT !.fn = "SolvePolynomial", !.m = m]
    /\ psol' = SolvePolynomial(xo, yo, m)
    /\ reg' = NoReg /\ tsol' = NoTsol /\ r2' = Zero
    /\ UNCHANGED <<xo, yo>>
    /\ UNCHANGED driverVars
    /\ UNCHANGED auxVars

\* a call of r2Calc(xo, yo, s.LinearFunction()) with s = Solution{At: a, Bt: b}
CallR2Calc(a, b) ==
    /\ last = NoCall
    /\ ~r2CalcPanics(xo, yo)
    /\ last' = [NoCall EXCEPT !.fn = "r2Calc", !.fa = a, !.fb = b]
    /\ r2' = r2Calc(xo, yo, LinearFunction([NoSolution EXCEPT !.At = a, !.Bt = b]))
    /\ reg' = NoReg /\ tsol' = NoTsol /\ psol' = NoPsol
    /\ UNCHANGED <<xo, yo>>
    /\ UNCHANGED driverVars
    /\ UNCHANGED auxVars

Next ==
    \/ \E m \in 0..MaxDegree : CallPolynomialRegression(m)
    \/ \E lt \in ModelSet : CallSolveTransformation(lt)
    \/ \E m \in 0..MaxDegree : CallSolvePolynomial(m)
    \/ \E c \in FitCoefs : CallR2Calc(c[1], c[2])

Spec == Init /\ [][Next]_vars

----------------------------------------------------------------------------
(* The regression run of main: from the plot of the data to the polynomial  *)
(* plot.  xo is xTrimmed and yo is sYTrimmed[0]; tsol is what               *)
(* SolveTransformation returned into solution, psol what SolvePolynomial    *)
(* returned into s.                                                         *)

\* the transformations main fits after None, in the order of ltList
ltList == <<"Exponential", "Power", "LnPower", "OneOverX", "BOverX",
            "OneOverX2", "Sqrt">>

\* what PlotRegression may return: nil, or the error of building or saving
\* the plot
PlotError == "plot error"
PlotResults == {Nil, PlotError}

\* the data main may hand to the regression run: trimSlice returns at least
\* one x; a y column whose trimSlice failed is nil, and one of another length
\* than x stays as it is
DriverXs == {<<Num(1), Num(1)>>} \cup
            {[i \in 1..n |-> Num(i - 1)] : n \in 1..MaxLen}
DriverYs == UNION {{[i \in 1..n |-> Num(1)], [i \in 1..n |-> Num(i)]} :
                      n \in 0..MaxLen}
DriverData == {<<x, y>> \in DriverXs \X DriverYs :
                  Len(y) >= Len(x) - 1 /\ Len(y) <= Len(x) + 1}

DriverInit ==
    /\ \E d \in DriverData : xo = d[1] /\ yo = d[2]
    /\ last = NoCall /\ reg = NoReg /\ r2 = Zero
    /\ tsol = NoTsol /\ psol = NoPsol
    /\ pc = "plotData"
    /\ regression \in BOOLEAN
    /\ review \in BOOLEAN
    /\ degree \in 0..MaxDegree
    /\ li = 0 /\ err = Nil /\ stderr = 0 /\ fitted = <<>> /\ status = -1
    /\ AuxIdle

\* printError(e): one line on standard error unless e is nil
printError(e) == IF e # Nil THEN 1 ELSE 0

\* PlotData going on to the fits whether or not --regression was given
PlotData_ignoresRegression ==
    /\ pc = "plotData"
    /\ IF Len(yo) < Len(xo)
       THEN pc' = "panic" /\ status' = 2
       ELSE pc' = "fitNone" /\ UNCHANGED status
    /\ UNCHANGED <<xo, yo, tsol, psol, regression, review, degree, li, err,
                   stderr, fitted>>
    /\ UNCHANGED pkgVars
    /\ UNCHANGED auxVars

\* regression.PlotRegression(xTrimmed, sYTrimmed, ...) of the data, whose
\* result is dropped, then the exit when --regression was not given
PlotData ==
    /\ pc = "plotData"
    /\ IF Len(yo) < Len(xo)
       THEN pc' = "panic" /\ status' = 2
       ELSE IF ~regression
       THEN pc' = "exit" /\ status' = 0
       ELSE pc' = "fitNone" /\ UNCHANGED status
    /\ UNCHANGED <<xo, yo, tsol, psol, regression, review, degree, li, err,
                   stderr, fitted>>
    /\ UNCHANGED pkgVars
    /\ UNCHANGED auxVars

\* FitAndPlot with os.Exit(1) after the error of SolveTransformation is printed
FitAndPlot_exitOnError(lt, withReview) ==
    /\ tsol' = SolveTransformation(xo, yo, lt)
    /\ fitted' = Append(fitted, lt)
    /\ IF tsol'.panic
       THEN /\ pc' = "panic" /\ status' = 2
            /\ UNCHANGED <<err, stderr, li>>
       ELSE IF tsol'.err # Nil
       THEN /\ pc' = "exit" /\ status' = 1
            /\ err' = tsol'.err
            /\ stderr' = stderr + printError(tsol'.err)
            /\ UNCHANGED li
       ELSE /\ UNCHANGED status
            /\ \E reviewErr \in (IF withReview THEN PlotResults ELSE {Nil}),
                  plotErr \in PlotResults :
                  /\ err' = plotErr
                  /\ stderr' = stderr + printError(reviewErr)
                                      + printError(plotErr)
            /\ IF li < Len(ltList)
               THEN pc' = "fitList" /\ li' = li + 1
               ELSE pc' = "poly" /\ UNCHANGED li
    /\ UNCHANGED <<xo, yo, psol, regression, review, degree>>
    /\ UNCHANGED pkgVars
    /\ UNCHANGED auxVars

\* one fit of main: SolveTransformation, then the plots when there is no
\* error, every error only printed.  reviewErr and plotErr are what
\* solution.PlotLinearTransformation (called with --review, for the
\* transformations of ltList) and solution.Plot return.
FitAndPlot(lt, withReview) ==
    /\ tsol' = SolveTransformation(xo, yo, lt)
    /\ fitted' = Append(fitted, lt)
    /\ IF tsol'.panic
       THEN /\ pc' = "panic" /\ status' = 2
            /\ UNCHANGED <<err, stderr, li>>
       ELSE /\ UNCHANGED status
            /\ IF tsol'.err = Nil
               THEN \E reviewErr \in (IF withReview THEN PlotResults ELSE {Nil}),
                       plotErr \in PlotResults :
                       /\ err' = plotErr
                       /\ stderr' = stderr + printError(reviewErr)
                                           + printError(plotErr)
               ELSE /\ err' = tsol'.err
                    /\ stderr' = stderr + printError(tsol'.err)
            /\ IF li < Len(ltList)
               THEN pc' = "fitList" /\ li' = li + 1
               ELSE pc' = "poly" /\ UNCHANGED li
    /\ UNCHANGED <<xo, yo, psol, regression, review, degree>>
    /\ UNCHANGED pkgVars
    /\ UNCHANGED auxVars

\* the fit of the original data, with regression.None
FitNone == pc = "fitNone" /\ FitAndPlot("None", FALSE)

\* one iteration of the loop over ltList
FitList == pc = "fitList" /\ FitAndPlot(ltList[li], review)

\* the polynomial fit: its error ends the run with status 1
Poly ==
    /\ pc = "poly"
    /\ psol' = SolvePolynomial(xo, yo, degree)
    /\ IF psol'.panic
       THEN pc' = "panic" /\ status' = 2 /\ UNCHANGED <<err, stderr>>
       ELSE IF psol'.err # Nil
       THEN /\ pc' = "exit" /\ status' = 1
            /\ err' = psol'.err /\ stderr' = stderr + 1
       ELSE /\ pc' = "plotPoly" /\ err' = Nil
            /\ UNCHANGED <<status, stderr>>
    /\ UNCHANGED <<xo, yo, tsol, regression, review, degree, li, fitted>>
    /\ UNCHANGED pkgVars
    /\ UNCHANGED auxVars

\* s.Plot(), whose result is dropped, and the return from main
PlotPoly ==
    /\ pc = "plotPoly"
    /\ pc' = "exit" /\ status' = 0
    /\ UNCHANGED <<xo, yo, tsol, psol, regression, review, degree, li, err,
                   stderr, fitted>>
    /\ UNCHANGED pkgVars
    /\ UNCHANGED auxVars

DriverNext == PlotData \/ FitNone \/ FitList \/ Poly \/ PlotPoly

SpecDriver == DriverInit /\ [][DriverNext]_vars

----------------------------------------------------------------------------
(* Properties of PolynomialRegression and of its callers *)

\* C1: for every degree m >= 0 and every data set with n = len(x) < m+1,
\* PolynomialRegression(m, x, y) returns the error "Not enough points" before
\* the matrices a and b are built and before solved is written, and
\* SolvePolynomial(x, y, m) returns that same error.
C1_NotEnoughPoints ==
    /\ (last.fn = "PolynomialRegression" /\ Len(xo) < last.m + 1) =>
          /\ reg.err = NotEnoughPoints
          /\ reg.a = <<>> /\ reg.b = <<>>
          /\ reg.solved = Zeros(last.m + 1)
          /\ ~reg.panic
    /\ (last.fn = "SolvePolynomial" /\ Len(xo) < last.m + 1) =>
          psol.err = NotEnoughPoints /\ ~psol.panic

\* two points handed to a fit of degree 2
C1_Witness ==
    /\ last.fn = "PolynomialRegression" /\ last.m = 2 /\ Len(xo) = 2
    /\ reg.err = NotEnoughPoints

\* the moment matrix PolynomialRegression built has determinant 0
SingularMoments ==
    /\ last.fn = "PolynomialRegression"
    /\ Len(xo) >= last.m + 1
    /\ ~reg.panic
    /\ AllFinite(reg.a, reg.b)
    /\ IsZero(Det(reg.a))

\* C2: when n >= m+1 and the moment matrix is not invertible,
\* PolynomialRegression returns a non-nil error; it never returns a nil error
\* with a coefficient vector.
C2_SingularIsReported == SingularMoments => reg.err # Nil

\* every value of the sequence is a rational number
AllRat(x) == \A i \in 1..Len(x) : IsRat(x[i])

\* the sequence has at least 2 distinct values
TwoDistinct(x) == \E i, j \in 1..Len(x) : x[i] # x[j]

\* the slope and the intercept of the line through the first point and the
\* first point with another x
SlopeOf(x, y) ==
    LET j == CHOOSE k \in 1..Len(x) :
                 x[k] # x[1] /\ \A l \in 1..(k - 1) : x[l] = x[1]
    IN FDiv(FSub(y[j], y[1]), FSub(x[j], x[1]))
InterceptOf(x, y) == FSub(y[1], FMul(SlopeOf(x, y), x[1]))

\* y_i = c + d * x_i for every i
Noiseless(x, y, c, d) == \A i \in 1..Len(x) : y[i] = FAdd(c, FMul(d, x[i]))

\* C3: for every x with at least 2 distinct values and noiseless data
\* y_i = c + d*x_i, PolynomialRegression(1, x, y) returns the 2 coefficients
\* a0 = c and a1 = d; x = y = [0,1,2,3,4] gives [0, 1].
C3_LineRecovered ==
    /\ (/\ last.fn = "PolynomialRegression" /\ last.m = 1
        /\ AllRat(xo) /\ AllRat(yo) /\ TwoDistinct(xo)
        /\ Noiseless(xo, yo, InterceptOf(xo, yo), SlopeOf(xo, yo))) =>
          /\ reg.err = Nil
          /\ Len(reg.solved) = 2
          /\ reg.solved = <<InterceptOf(xo, yo), SlopeOf(xo, yo)>>
    /\ (/\ last.fn = "PolynomialRegression" /\ last.m = 1
        /\ xo = TestX /\ yo = TestX) =>
          reg.solved = <<Zero, One>>

\* three points of the line y = 1 - x, two of them the same
C3_Witness ==
    /\ last.fn = "PolynomialRegression" /\ last.m = 1
    /\ xo = <<Num(0), Num(1), Num(1)>> /\ yo = <<Num(1), Num(0), Num(0)>>
    /\ reg.solved = <<Num(1), Num(-1)>>

\* C4: on success SolveTransformation(xo, yo, lt) returns X = xo, Y = yo,
\* Xt[i] = FTransformX(xo[i]), Yt[i] = FTransformY(yo[i]), all of length
\* len(xo), (At, Bt) the degree-1 PolynomialRegression coefficients of
\* (Xt, Yt), A = FRestoreA(At), B = FRestoreB(Bt), R2t the r2Calc of (Xt, Yt)
\* with At + Bt*x and R2 the r2Calc of (X, Y) with FX(A, B, x).
C4_SolutionFields ==
    (last.fn = "SolveTransformation" /\ ~tsol.panic /\ tsol.err = Nil) =>
        LET s == tsol.sol
            lt == last.lt
            n == Len(xo)
            c == PolynomialRegression(1, s.Xt, s.Yt).solved
        IN /\ s.X = xo /\ s.Y = yo
           /\ Len(s.X) = n /\ Len(s.Y) = n /\ Len(s.Xt) = n /\ Len(s.Yt) = n
           /\ \A i \in 1..n : /\ s.Xt[i] = FTransformX(lt, xo[i])
                              /\ s.Yt[i] = FTransformY(lt, yo[i])
           /\ s.At = c[1] /\ s.Bt = c[2]
           /\ s.A = FRestoreA(lt, s.At)
           /\ s.B = FRestoreB(lt, s.Bt)
           /\ s.R2t = r2Calc(s.Xt, s.Yt,
                             LinearFunction([NoSolution EXCEPT !.At = s.At,
                                                               !.Bt = s.Bt]))
           /\ s.R2 = r2Calc(s.X, s.Y,
                            RegressionFunction([NoSolution EXCEPT !.LT = lt,
                                                    !.A = s.A, !.B = s.B]))

\* the exponential fit of y = e^x: At = 0 and Bt = 1 restored to A = 1, B = e
C4_Witness ==
    /\ last.fn = "SolveTransformation" /\ last.lt = "Exponential"
    /\ tsol.err = Nil
    /\ Len(xo) >= 2
    /\ tsol.sol.At = Zero /\ tsol.sol.Bt = One
    /\ tsol.sol.A = One /\ tsol.sol.B = E
    /\ tsol.sol.R2t = One

\* C5: when PolynomialRegression fails inside SolveTransformation or inside
\* SolvePolynomial, the entry point returns that error and At, Bt, A, B, R2t,
\* R2 of the Solution (A and R2 of the PolynomialSolution) stay unset.
C5_ErrorPropagates ==
    /\ last.fn = "SolveTransformation" =>
          LET r == PolynomialRegression(1,
                      [i \in 1..Len(xo) |-> FTransformX(last.lt, xo[i])],
                      [i \in 1..Len(xo) |-> FTransformY(last.lt, yo[i])])
          IN r.err # Nil =>
                /\ tsol.err = r.err
                /\ tsol.sol.At = Zero /\ tsol.sol.Bt = Zero
                /\ tsol.sol.A = Zero /\ tsol.sol.B = Zero
                /\ tsol.sol.R2t = Zero /\ tsol.sol.R2 = Zero
    /\ last.fn = "SolvePolynomial" =>
          LET r == PolynomialRegression(last.m, xo, yo)
          IN r.err # Nil =>
                /\ psol.err = r.err
                /\ psol.sol.A = <<>>
                /\ psol.sol.R2 = Zero

\* one point handed to the exponential fit
C5_Witness ==
    /\ last.fn = "SolveTransformation" /\ last.lt = "Exponential"
    /\ Len(xo) = 1
    /\ tsol.err = NotEnoughPoints
    /\ tsol.sol.A = Zero

\* the models of a regression run, in the order they are fitted
AllModels == <<"None">> \o ltList

\* the polynomial fit was attempted
PolyAttempted == pc = "plotPoly" \/ (pc = "exit" /\ regression)

\* what holds of the models fitted so far
C6_Fitted ==
    /\ Len(fitted) <= Len(AllModels)
    /\ \A i \in 1..Len(fitted) : fitted[i] = AllModels[i]
    /\ (pc = "poly" \/ PolyAttempted) => fitted = AllModels

\* a fit of a model goes on to the next model or to the polynomial fit, and
\* its error is only printed
C6_FitStep ==
    (pc \in {"fitNone", "fitList"}) =>
        /\ fitted' = Append(fitted, AllModels[Len(fitted) + 1])
        /\ pc' \in {"fitList", "poly"}
        /\ status' = -1
        /\ (err' # Nil) => stderr' > stderr

\* C6: in a regression run the models None, Exponential, Power, LnPower,
\* OneOverX, BOverX, OneOverX2, Sqrt are each fitted exactly once in that
\* order, the error of fitting or plotting one of them is only printed, and
\* every later model and the polynomial fit are still attempted: the step
\* after the fit of a model is the fit of the next one, after the last one
\* the polynomial fit.
C6_AllModelsFitted == []C6_Fitted /\ [][C6_FitStep]_vars

\* a run on one point: the 8 fits fail, each error is printed, and the
\* polynomial of degree 0 is fitted and plotted
C6_Witness ==
    /\ pc = "exit" /\ status = 0 /\ regression
    /\ Len(xo) = 1
    /\ stderr = Len(AllModels)
    /\ fitted = AllModels
    /\ psol.err = Nil /\ Len(psol.sol.A) = 1

----------------------------------------------------------------------------
(* Properties of r2Calc *)

\* the sum of the squares of v[i] - c
SumSquares(v, c) ==
    SumTo([i \in 1..Len(v) |-> FMul(FSub(v[i], c), FSub(v[i], c))], Len(v))

\* the arithmetic mean
Mean(v) == FMul(Rat(1, Len(v)), SumTo(v, Len(v)))

\* the values a + b * x_i of the line
LineValues(x, a, b) == [i \in 1..Len(x) |-> FAdd(a, FMul(b, x[i]))]

\* a and b are within tol of each other
Within(a, b, tol) == FLess(FSub(a, b), tol) /\ FLess(FSub(b, a), tol)

\* C7: for x, y of equal length and a function f, r2Calc(x, y, f) is the sum
\* of (f(x_i) - mean(y))^2 divided by the sum of (y_i - mean(y))^2; for
\* x = [0,1,2,3,4], y = [0,0.9,2,3.1,4], f(x) = -0.04 + 1.02x it is
\* 10.404/10.42, within 1e-4 of 0.9985.
C7_R2Formula ==
    /\ (last.fn = "r2Calc" /\ Len(xo) > 0) =>
          r2 = FDiv(SumSquares(LineValues(xo, last.fa, last.fb), Mean(yo)),
                    SumSquares(yo, Mean(yo)))
    /\ (/\ last.fn = "r2Calc" /\ xo = TestX /\ yo = TestY
        /\ last.fa = Rat(-4, 100) /\ last.fb = Rat(102, 100)) =>
          /\ r2 = Rat(10404, 10420)
          /\ Within(r2, Rat(9985, 10000), Rat(1, 10000))

\* the second case of TestR2Calc
C7_Witness ==
    /\ last.fn = "r2Calc" /\ xo = TestX /\ yo = TestY
    /\ last.fa = Rat(-4, 100) /\ last.fb = Rat(102, 100)
    /\ r2 = Rat(10404, 10420)

\* C8: for every data set with non-constant y and every f with f(x_i) = y_i
\* for all i, r2Calc(x, y, f) = 1.
C8_PerfectFit ==
    (/\ last.fn = "r2Calc"
     /\ TwoDistinct(yo)
     /\ \A i \in 1..Len(xo) : IsFin(yo[i])
     /\ LineValues(xo, last.fa, last.fb) = yo) =>
        r2 = One

\* the line y = 1 - x through three points, two of them the same
C8_Witness ==
    /\ last.fn = "r2Calc" /\ last.fa = One /\ last.fb = Num(-1)
    /\ xo = <<Num(0), Num(0), Num(1)>> /\ yo = <<Num(1), Num(1), Num(0)>>
    /\ r2 = One

\* the conventional coefficient of determination, 1 - SSresidual / SStotal
Conventional(x, y, a, b) ==
    LET f == LineValues(x, a, b)
        res == SumTo([i \in 1..Len(x) |->
                         FMul(FSub(y[i], f[i]), FSub(y[i], f[i]))], Len(x))
    IN FSub(One, FDiv(res, SumSquares(y, Mean(y))))

\* C9: r2Calc is not bounded by 1: for x = y = [0, 1] and f(x) = 2x it
\* returns 5, and the conventional 1 - SSresidual/SStotal is -1 there.
C9_ExceedsOne ==
    (/\ last.fn = "r2Calc" /\ last.fa = Zero /\ last.fb = Two
     /\ xo = <<Num(0), Num(1)>> /\ yo = <<Num(0), Num(1)>>) =>
        /\ FLess(One, r2)
        /\ IsFin(r2)
        /\ Conventional(xo, yo, last.fa, last.fb) = Num(-1)
        /\ r2 # Conventional(xo, yo, last.fa, last.fb)

\* r2Calc returned 5 for f(x) = 2x on x = y = [0, 1]
C9_Witness ==
    /\ last.fn = "r2Calc" /\ last.fa = Zero /\ last.fb = Two
    /\ xo = <<Num(0), Num(1)>> /\ yo = <<Num(0), Num(1)>>
    /\ r2 = Num(5)

\* all y values are equal
ConstantY == Len(yo) > 0 /\ \A i \in 1..Len(yo) : yo[i] = yo[1] /\ IsFin(yo[i])

\* C10: when all y values are equal r2Calc divides by zero and returns NaN or
\* an infinity, no error; SolveTransformation and SolvePolynomial return a
\* nil error with that value in R2.
C10_ConstantYUndefined ==
    ConstantY =>
        /\ last.fn = "r2Calc" => IsNonFinite(r2)
        /\ (last.fn = "SolveTransformation" /\ Len(xo) >= 2) =>
              /\ ~tsol.panic /\ tsol.err = Nil
              /\ IsNonFinite(tsol.sol.R2)
        /\ (last.fn = "SolvePolynomial" /\ Len(xo) >= last.m + 1) =>
              /\ ~psol.panic /\ psol.err = Nil
              /\ IsNonFinite(psol.sol.R2)

\* a parabola fitted to three points of the same y: R2 is 0/0
C10_Witness ==
    /\ last.fn = "SolvePolynomial" /\ last.m = 2
    /\ Len(xo) = 3 /\ ConstantY
    /\ psol.err = Nil
    /\ psol.sol.R2 = NaN

----------------------------------------------------------------------------
(* SolveTransformation on noiseless data: every data set is generated from  *)
(* the equation FX of one transformation, on x values and parameters on     *)
(* which the transformation is computed exactly.                            *)

\* parameters (a, b) that are rational numbers
RatParams == {<<Num(1), Num(1)>>, <<Num(2), Rat(-1, 2)>>, <<Rat(1, 2), Num(3)>>}

\* the parameters (a, b) the data of a transformation is generated with
ModelParams(lt) ==
    CASE lt = "Power" ->
            {<<Num(1), Num(1)>>, <<Num(10), Num(2)>>, <<Rat(1, 10), Num(-1)>>}
      [] lt = "Exponential" ->
            {<<One, E>>, <<E, Fin(1, 1, 2, 1)>>, <<E, Fin(1, 1, -1, 2)>>}
      [] lt = "LnPower" ->
            {<<One, Num(1)>>, <<E, Num(2)>>, <<E, Rat(-1, 2)>>}
      [] lt = "OneOverX2" -> RatParams \cup {<<Num(-1), Num(-1)>>}
      [] OTHER -> RatParams

\* the x values the data of a transformation is generated on
ModelXs(lt) ==
    CASE lt = "Power" -> <<Num(1), Num(10), Num(100)>>
      [] lt = "LnPower" -> <<One, E, FMul(E, E)>>
      [] lt = "Sqrt" -> <<Num(0), Num(1), Num(4)>>
      [] OTHER -> <<Num(0), Num(1), Num(2)>>

\* the noiseless data y_i = lt.FX(a, b, x_i)
Generated(lt, a, b, x) == Stored([i \in 1..Len(x) |-> FX(lt, a, b, x[i])])

\* the noiseless data sets of n points of a transformation
NoiselessOf(lt, n) ==
    {<<x, Generated(lt, p[1], p[2], x)>> :
        x \in {Stored([i \in 1..n |-> ModelXs(lt)[g[i]]]) :
                  g \in {h \in [1..n -> 1..Len(ModelXs(lt))] :
                            \A i \in 1..n : i < n => h[i] <= h[i + 1]}},
        p \in ModelParams(lt)}

NoiselessData ==
    UNION {NoiselessOf(lt, n) : lt \in ModelSet \ {"None"}, n \in 2..MaxLen}

NoiselessInit ==
    /\ \E d \in NoiselessData : xo = d[1] /\ yo = d[2]
    /\ last = NoCall
    /\ reg = NoReg
    /\ tsol = NoTsol
    /\ psol = NoPsol
    /\ r2 = Zero
    /\ DriverIdle
    /\ AuxIdle

NoiselessNext == \E lt \in ModelSet : CallSolveTransformation(lt)

SpecNoiseless == NoiselessInit /\ [][NoiselessNext]_vars

\* the data is inside the domain the table of transformations gives
InDomain(lt, a, x, y) ==
    \A i \in 1..Len(x) :
        /\ IsFin(x[i]) /\ IsFin(y[i])
        /\ CASE lt = "Power" -> FLess(Zero, x[i]) /\ FLess(Zero, y[i])
             [] lt = "Exponential" -> FLess(Zero, y[i])
             [] lt = "LnPower" -> FLess(Zero, x[i]) /\ FLess(Zero, a)
             [] lt = "OneOverX" -> y[i] # Zero
             [] lt = "BOverX" -> x[i] # Num(-1)
             [] lt = "OneOverX2" -> FLess(Zero, y[i])
             [] lt = "Sqrt" -> ~FLess(x[i], Zero)
             [] OTHER -> TRUE

\* SolveTransformation was called with lt on data generated from lt.FX with
\* the parameters p, inside the domain, with 2 distinct transformed x values
FittedOwnData(p) ==
    /\ last.fn = "SolveTransformation" /\ last.lt # "None"
    /\ ~tsol.panic
    /\ yo = Generated(last.lt, p[1], p[2], xo)
    /\ InDomain(last.lt, p[1], xo, yo)
    /\ TwoDistinct([i \in 1..Len(xo) |-> FTransformX(last.lt, xo[i])])

\* the fit returned the parameters p
Recovered(p) == tsol.err = Nil /\ tsol.sol.A = p[1] /\ tsol.sol.B = p[2]

PositiveLine(p, x) ==
    \A i \in 1..Len(x) : FLess(Zero, FAdd(p[1], FMul(p[2], x[i])))

----------------------------------------------------------------------------
(* Single calls of the methods of a LinearTransformation: one method on one *)
(* value, and FY on what FX returned.                                       *)

\* the values the methods are called on
FnValues == {Num(0), Num(1), Num(2), Num(-1), Rat(1, 2), Num(4), Rat(1, 4),
             Num(10), Rat(1, 10), E, FMul(E, E)}

\* the parameters a and b the methods are called with
FnParams == {Num(1), Num(2), Rat(1, 2), Num(-1), E}

\* the methods of the interfaces LinearTransformation and Interpolation
Methods == {"FX", "FY", "FTransformX", "FTransformY", "FRestoreA", "FRestoreB"}

\* lt.f(...) with the parameters a and b, where f takes them, and the value v
Method(f, lt, a, b, v) ==
    CASE f = "FX" -> FX(lt, a, b, v)
      [] f = "FY" -> FY(lt, a, b, v)
      [] f = "FTransformX" -> FTransformX(lt, v)
      [] f = "FTransformY" -> FTransformY(lt, v)
      [] f = "FRestoreA" -> FRestoreA(lt, v)
      [] f = "FRestoreB" -> FRestoreB(lt, v)

FnInit ==
    /\ fin \in [lt : ModelSet, a : FnParams, b : FnParams, v : FnValues]
    /\ fcall = <<>>
    /\ fres = Zero
    /\ SeqIdle /\ ConcIdle /\ CsvIdle /\ TrimIdle /\ opts = NoOptions
    /\ xo = <<>> /\ yo = <<>>
    /\ last = NoCall /\ reg = NoReg /\ tsol = NoTsol /\ psol = NoPsol
    /\ r2 = Zero
    /\ DriverIdle

\* a call of the method f of fin.lt on the value fin.v
ApplyMethod(f) ==
    /\ fcall = <<>>
    /\ fcall' = <<f>>
    /\ fres' = Method(f, fin.lt, fin.a, fin.b, fin.v)
    /\ UNCHANGED fin
    /\ UNCHANGED <<seqVars, concVars, csvVars, trimVars, opts>>
    /\ UNCHANGED <<xo, yo, tsol, psol>>
    /\ UNCHANGED pkgVars
    /\ UNCHANGED driverVars

\* a call of FY on the value FX returned, with the same parameters
ApplyFYAfterFX ==
    /\ fcall = <<"FX">>
    /\ fcall' = <<"FX", "FY">>
    /\ fres' = FY(fin.lt, fin.a, fin.b, fres)
    /\ UNCHANGED fin
    /\ UNCHANGED <<seqVars, concVars, csvVars, trimVars, opts>>
    /\ UNCHANGED <<xo, yo, tsol, psol>>
    /\ UNCHANGED pkgVars
    /\ UNCHANGED driverVars

\* Solution.RegressionFunction of a solution with the fitted At, Bt, then
\* FTransformY on what it returns: the curve, seen in the transformed space
Curve(lt, at, bt, x) ==
    FTransformY(lt, FX(lt, FRestoreA(lt, at), FRestoreB(lt, bt), x))

\* the calls of Curve on fin, fin.a the fitted At and fin.b the fitted Bt
ApplyCurve ==
    /\ fcall = <<>>
    /\ fcall' = <<"FRestoreA", "FRestoreB", "FX", "FTransformY">>
    /\ fres' = Curve(fin.lt, fin.a, fin.b, fin.v)
    /\ UNCHANGED fin
    /\ UNCHANGED <<seqVars, concVars, csvVars, trimVars, opts>>
    /\ UNCHANGED <<xo, yo, tsol, psol>>
    /\ UNCHANGED pkgVars
    /\ UNCHANGED driverVars

FnNext ==
    \/ \E f \in Methods : ApplyMethod(f)
    \/ ApplyFYAfterFX
    \/ ApplyCurve

SpecFunctions == FnInit /\ [][FnNext]_vars

\* the table of the transformations: X, the transformed x
TableX(lt, x) ==
    CASE lt \in {"None", "Exponential", "OneOverX", "OneOverX2"} -> x
      [] lt = "Power" -> Log10(x)
      [] lt = "LnPower" -> Log(x)
      [] lt = "BOverX" -> FDiv(One, FAdd(One, x))
      [] lt = "Sqrt" -> Sqrt(x)

\* the table of the transformations: Y, the transformed y
TableY(lt, y) ==
    CASE lt \in {"None", "LnPower", "BOverX", "Sqrt"} -> y
      [] lt = "Power" -> Log10(y)
      [] lt = "Exponential" -> Log(y)
      [] lt = "OneOverX" -> FDiv(One, y)
      [] lt = "OneOverX2" -> FDiv(One, Sqrt(y))

\* the table of the transformations: a restored from At
TableA(lt, at) ==
    CASE lt = "Power" -> Pow(Num(10), at)
      [] lt \in {"Exponential", "LnPower"} -> Pow(E, at)
      [] OTHER -> at

\* the table of the transformations: b restored from Bt
TableB(lt, bt) == IF lt = "Exponential" THEN Pow(E, bt) ELSE bt

\* C13: FTransformX, FTransformY, FRestoreA and FRestoreB of every model
\* compute the functions of the table: FTransformX is the identity for
\* None, Exponential, OneOverX and OneOverX2, FTransformY for None, LnPower,
\* BOverX and Sqrt, FRestoreA for every model except Power, Exponential and
\* LnPower, FRestoreB for every model except Exponential; OneOverX maps y
\* to 1/y and BOverX maps x to 1/(1+x).
C13_TransformationTable ==
    /\ fcall = <<"FTransformX">> => fres = TableX(fin.lt, fin.v)
    /\ fcall = <<"FTransformY">> => fres = TableY(fin.lt, fin.v)
    /\ fcall = <<"FRestoreA">> => fres = TableA(fin.lt, fin.v)
    /\ fcall = <<"FRestoreB">> => fres = TableB(fin.lt, fin.v)

\* BOverX.FTransformX(1) = 1/2
C13_Witness ==
    /\ fcall = <<"FTransformX">> /\ fin.lt = "BOverX" /\ fin.v = Num(1)
    /\ fres = Rat(1, 2)

\* C14: for the Logarithmic model y = a + b ln x, fitted with X = ln x and
\* Y = y, A = a and B = b: the reported a is the fitted intercept At, the
\* reported b the fitted slope Bt, and FX(a, b, x) = a + b * ln x.
C14_LogarithmicModel ==
    fin.lt = "LnPower" =>
        /\ fcall = <<"FRestoreA">> => fres = fin.v
        /\ fcall = <<"FRestoreB">> => fres = fin.v
        /\ (fcall = <<"FX">> /\ FLess(Zero, fin.v) /\ FLess(Zero, fin.a)) =>
              fres = FAdd(fin.a, FMul(fin.b, Log(fin.v)))

\* a, b and x are inside the domain of every model and FX(a, b, x) is a
\* computed finite value: x > 0, a > 0, b > 0, b # 1
InEveryDomain ==
    /\ FLess(Zero, fin.v) /\ FLess(Zero, fin.a) /\ FLess(Zero, fin.b)
    /\ fin.b # One
    /\ IsFin(FX(fin.lt, fin.a, fin.b, fin.v))

\* C15: for every model and a, b, x inside the model's domain, FY is the
\* inverse of FX in its last argument: FY(a, b, FX(a, b, x)) = x.
C15_FYInvertsFX ==
    (fcall = <<"FX", "FY">> /\ InEveryDomain /\ ~IsUnk(fres)) => fres = fin.v

\* Solution.LinearFunction of a solution with the fitted At, Bt, on the
\* transformed x
Line(lt, at, bt, x) == FAdd(at, FMul(bt, FTransformX(lt, x)))

\* Curve was called on At, Bt and x inside the domain of the table, and
\* both sides are computed values
CurveInDomain ==
    /\ fcall = <<"FRestoreA", "FRestoreB", "FX", "FTransformY">>
    /\ InDomain(fin.lt, FRestoreA(fin.lt, fin.a), <<fin.v>>,
                <<FX(fin.lt, FRestoreA(fin.lt, fin.a),
                     FRestoreB(fin.lt, fin.b), fin.v)>>)
    /\ ~IsUnk(fres)
    /\ ~IsUnk(Line(fin.lt, fin.a, fin.b, fin.v))

\* C26 as the specification states it: for every model and all At, Bt, x
\* inside the model's domain,
\* FTransformY(FX(FRestoreA(At), FRestoreB(Bt), x)) = At + Bt * FTransformX(x).
C26_CurveIsLine ==
    CurveInDomain => fres = Line(fin.lt, fin.a, fin.b, fin.v)

\* C26, as the code has it: the equation holds for every model when, for
\* OneOverX2, At + Bt * x > 0; for OneOverX2 with At + Bt * x < 0 the left
\* side is -(At + Bt * x).
C26_CurveIsLinePositive ==
    CurveInDomain =>
        LET l == Line(fin.lt, fin.a, fin.b, fin.v)
        IN IF fin.lt = "OneOverX2" /\ FLess(l, Zero)
           THEN fres = FNeg(l)
           ELSE fres = l

\* Exponential with At = 1, Bt = 2, x = 1/2: ln(e * (e^2)^(1/2)) = 2
C26_Witness ==
    /\ CurveInDomain
    /\ fin.lt = "Exponential"
    /\ fin.a = Num(1) /\ fin.b = Num(2) /\ fin.v = Rat(1, 2)
    /\ fres = Num(2)

----------------------------------------------------------------------------
(* Sequences of calls of SolveTransformation and SolvePolynomial, each call  *)
(* on data of its own.                                                       *)

\* the number of calls in a sequence
MaxCalls == 3

\* the data the calls of a sequence are made on
CallData == {<<<<Num(0), Num(1), Num(2)>>, <<Num(1), Num(3), Num(2)>>>>,
             <<<<Num(1), Num(2)>>, <<Num(1), Num(4)>>>>}

\* the transformations the calls of a sequence are made with
CallModels == {"None", "Power", "Exponential", "OneOverX2", "Sqrt"}

\* the arguments of a call
CallInputs ==
    {[fn |-> "SolveTransformation", x |-> d[1], y |-> d[2], lt |-> lt, m |-> 0]
        : d \in CallData, lt \in CallModels}
    \cup
    {[fn |-> "SolvePolynomial", x |-> d[1], y |-> d[2], lt |-> "None", m |-> m]
        : d \in CallData, m \in 0..MaxDegree}

\* a package that remembers the error of an earlier call
PackageCall_stickyError(c) ==
    The({
        IF \E p \in hist : p.out.err # Nil
        THEN [r EXCEPT !.err = NotEnoughPoints]
        ELSE r
        : r \in {IF c.fn = "SolveTransformation"
                 THEN SolveTransformation(c.x, c.y, c.lt)
                 ELSE SolvePolynomial(c.x, c.y, c.m)}})

\* what the call c returns; a call reads its arguments only
PackageCall(c) ==
    IF c.fn = "SolveTransformation"
    THEN SolveTransformation(c.x, c.y, c.lt)
    ELSE SolvePolynomial(c.x, c.y, c.m)

SeqInit ==
    /\ SeqIdle
    /\ FnIdle /\ ConcIdle /\ CsvIdle /\ TrimIdle /\ opts = NoOptions
    /\ xo = <<>> /\ yo = <<>>
    /\ last = NoCall /\ reg = NoReg /\ tsol = NoTsol /\ psol = NoPsol
    /\ r2 = Zero
    /\ DriverIdle

\* one more call of the sequence
NextCall(c) ==
    /\ ncalls < MaxCalls
    /\ ncalls' = ncalls + 1
    /\ hist' = hist \cup {[in |-> c, out |-> PackageCall(c)]}
    /\ UNCHANGED <<fnVars, concVars, csvVars, trimVars, opts>>
    /\ UNCHANGED <<xo, yo, tsol, psol>>
    /\ UNCHANGED pkgVars
    /\ UNCHANGED driverVars

SeqNext == \E c \in CallInputs : NextCall(c)

SpecCalls == SeqInit /\ [][SeqNext]_vars

----------------------------------------------------------------------------
(* Calls of SolveTransformation running at the same time on the same xo and  *)
(* yo, one step of one call at a time.                                       *)

\* the number of calls running at the same time
NumProcs == 2

Procs == 1..NumProcs

\* the transformations of the running calls
ConcModels == {"None", "OneOverX", "BOverX", "Sqrt"}

\* the data the running calls share
ConcData == {<<<<Num(0), Num(1), Num(4)>>, <<Num(1), Num(2), Num(4)>>>>,
             <<<<Num(1), Num(4)>>, <<Num(2), Num(1)>>>>,
             <<<<Num(1)>>, <<Num(1)>>>>}

\* the addresses of the caller's slices xo and yo
XoAddr == <<0, "X">>
YoAddr == <<0, "Y">>

\* the slice fields of a Solution
SliceFields == {"X", "Y", "Xt", "Yt"}

\* a call that transforms x in place: result.Xt is the caller's xo
SliceOf_transformInPlace(p, f) == IF f = "Xt" THEN XoAddr ELSE <<p, f>>

\* the address of the slice result.f of the call p: make returns memory
\* that no other slice has
SliceOf(p, f) == <<p, f>>

\* the heap h with v stored at index i of the slice at a
Write(h, a, i, v) == [h EXCEPT ![a][i] = v]

\* the heap after the body of the loop of the call p at index i
LoopBody(h, p, lt, i) ==
    LET h1 == Write(h, SliceOf(p, "X"), i, h[XoAddr][i])
        h2 == Write(h1, SliceOf(p, "Y"), i, h1[YoAddr][i])
        h3 == Write(h2, SliceOf(p, "Xt"), i, FTransformX(lt, h2[XoAddr][i]))
    IN Write(h3, SliceOf(p, "Yt"), i, FTransformY(lt, h3[YoAddr][i]))

\* the Solution of the call p with its slices as they are in the heap h
SolutionIn(h, p, lt) ==
    [X  |-> h[SliceOf(p, "X")], Y  |-> h[SliceOf(p, "Y")],
     Xt |-> h[SliceOf(p, "Xt")], Yt |-> h[SliceOf(p, "Yt")],
     At |-> Zero, Bt |-> Zero, A |-> Zero, B |-> Zero,
     LT |-> lt, R2t |-> Zero, R2 |-> Zero]

\* SolveTransformation after its loop: the fit of the transformed data
FitCopy(copy) ==
    The({
        IF s.err # Nil
        THEN [panic |-> FALSE, err |-> s.err, sol |-> copy]
        ELSE The({
            [panic |-> FALSE, err |-> Nil,
             sol |-> [fit EXCEPT
                !.R2t = r2Calc(fit.Xt, fit.Yt, LinearFunction(fit)),
                !.R2 = r2Calc(fit.X, fit.Y, RegressionFunction(fit))]]
            : fit \in {FittedSolution(copy, s.solved)}})
        : s \in {PolynomialRegression(1, copy.Xt, copy.Yt)}})

ConcInit ==
    /\ \E d \in ConcData : xo = d[1] /\ yo = d[2]
    /\ heap = [a \in {XoAddr, YoAddr} |-> IF a = XoAddr THEN xo ELSE yo]
    /\ gor \in [Procs -> {[pc |-> "make", i |-> 0, lt |-> lt, ret |-> NoTsol]
                            : lt \in ConcModels}]
    /\ wrote = {}
    /\ FnIdle /\ SeqIdle /\ CsvIdle /\ TrimIdle /\ opts = NoOptions
    /\ last = NoCall /\ reg = NoReg /\ tsol = NoTsol /\ psol = NoPsol
    /\ r2 = Zero
    /\ DriverIdle

\* the call p allocates the four slices of its result
Make(p) ==
    /\ gor[p].pc = "make"
    /\ heap' = [a \in DOMAIN heap \cup {SliceOf(p, f) : f \in SliceFields} |->
                   IF a \in DOMAIN heap THEN heap[a]
                   ELSE [i \in 1..Len(heap[XoAddr]) |-> Zero]]
    /\ gor' = [gor EXCEPT ![p].pc = "loop", ![p].i = 1]
    /\ UNCHANGED wrote
    /\ UNCHANGED <<xo, yo, tsol, psol>>
    /\ UNCHANGED <<pkgVars, driverVars, fnVars, seqVars, csvVars, trimVars, opts>>

\* one iteration of the loop of the call p
Loop(p) ==
    /\ gor[p].pc = "loop"
    /\ gor[p].i <= Len(heap[XoAddr])
    /\ heap' = LoopBody(heap, p, gor[p].lt, gor[p].i)
    /\ wrote' = wrote \cup {<<p, SliceOf(p, f)>> : f \in SliceFields}
    /\ gor' = [gor EXCEPT ![p].i = gor[p].i + 1]
    /\ UNCHANGED <<xo, yo, tsol, psol>>
    /\ UNCHANGED <<pkgVars, driverVars, fnVars, seqVars, csvVars, trimVars, opts>>

\* the call p after its loop: the fit, the restored coefficients, the R2s
Fit(p) ==
    /\ gor[p].pc = "loop"
    /\ gor[p].i > Len(heap[XoAddr])
    /\ gor' = [gor EXCEPT ![p].pc = "done",
                          ![p].ret = FitCopy(SolutionIn(heap, p, gor[p].lt))]
    /\ UNCHANGED <<heap, wrote>>
    /\ UNCHANGED <<xo, yo, tsol, psol>>
    /\ UNCHANGED <<pkgVars, driverVars, fnVars, seqVars, csvVars, trimVars, opts>>

ConcNext == \E p \in Procs : Make(p) \/ Loop(p) \/ Fit(p)

SpecConcurrent == ConcInit /\ [][ConcNext]_vars

\* what the call p returned, with the slices of its Solution as they are in
\* memory now
Returned(p) ==
    [gor[p].ret EXCEPT !.sol.X = heap[SliceOf(p, "X")],
                       !.sol.Y = heap[SliceOf(p, "Y")],
                       !.sol.Xt = heap[SliceOf(p, "Xt")],
                       !.sol.Yt = heap[SliceOf(p, "Yt")]]

\* C17: SolveTransformation never writes to its input slices xo and yo and
\* writes only to slices it allocates itself (X, Y, Xt, Yt are fresh copies,
\* not aliases), so fits of several models over the same data, run in any
\* interleaving, leave the data unchanged and produce the Solutions that
\* running them one after another produces.
C17_InputsUntouched ==
    /\ heap[XoAddr] = xo /\ heap[YoAddr] = yo
    /\ \A w \in wrote : w[2][1] = w[1]
    /\ \A p, q \in Procs : \A f, g \in SliceFields :
          (p # q \/ f # g) => SliceOf(p, f) # SliceOf(q, g)
    /\ (\A p \in Procs : gor[p].pc = "done") =>
          \A p \in Procs : Returned(p) = SolveTransformation(xo, yo, gor[p].lt)

\* two calls with different models have run interleaved and both returned
\* a computed Solution
C17_Witness ==
    /\ \A p \in Procs : gor[p].pc = "done" /\ gor[p].ret.err = Nil
    /\ gor[1].lt = "OneOverX" /\ gor[2].lt = "Sqrt"
    /\ Len(xo) = 3
    /\ IsRat(gor[1].ret.sol.R2) /\ IsRat(gor[2].ret.sol.R2)
    /\ gor[1].ret.sol.Xt # gor[2].ret.sol.Xt

----------------------------------------------------------------------------
(* SolvePolynomialReverseMatrix: the coefficients as (Z^T Z)^-1 Z^T y.       *)

\* generateZmatrix with the columns one power too high
generateZmatrix_fromX1(x, m) ==
    Stored([i \in 1..Len(x) |->
        Stored([j \in 1..(m + 1) |-> Pow(x[i], Num(j))])])

\* generateZmatrix: the matrix with Z[i][j] = x_i^j, j = 0..m
generateZmatrix(x, m) ==
    Stored([i \in 1..Len(x) |->
        Stored([j \in 1..(m + 1) |-> Pow(x[i], Num(j - 1))])])

\* z.T() of a matrix with c columns
Transpose(z, c) ==
    Stored([j \in 1..c |-> Stored([i \in 1..Len(z) |-> z[i][j]])])

\* gonum's Mul: the product of a and b, b with c columns
MatMul(a, b, c) ==
    Stored([i \in 1..Len(a) |-> Stored([j \in 1..c |->
        SumTo([k \in 1..Len(b) |-> FMul(a[i][k], b[k][j])], Len(b))])])

\* mat.NewVecDense(len(y), y): the column vector of y
ColumnVector(y) == Stored([i \in 1..Len(y) |-> <<y[i]>>])

\* the j-th unit vector of length n
UnitVector(n, j) == [i \in 1..n |-> IF i = j THEN One ELSE Zero]

\* a square matrix of values that are not computed
UnkMatrix(n) == [i \in 1..n |-> [j \in 1..n |-> Unk]]

\* gonum's Inverse of a square matrix by LU factorization.  For a singular
\* matrix it returns a Condition error and the receiver holds no meaningful
\* values; so it does with entries that are not finite.
Inverse(a) ==
    IF ~AllFinite(a, Zeros(Len(a))) THEN UnkMatrix(Len(a))
    ELSE The({
        IF IsZero(det) \/ ~IsFin(det) THEN UnkMatrix(Len(a))
        ELSE Stored([i \in 1..Len(a) |-> Stored([j \in 1..Len(a) |->
                FDiv(Det(ReplaceColumn(a, i, UnitVector(Len(a), j))), det)])])
        : det \in {Det(a)}})

\* [Z]^T [Z] of polynomialRegressionInverseMatrix
ZtZ(m, x) ==
    The({MatMul(Transpose(z, m + 1), z, m + 1) : z \in {generateZmatrix(x, m)}})

\* [Z]^T {y} of polynomialRegressionInverseMatrix, as a vector
Zty(m, x, y) ==
    The({[i \in 1..(m + 1) |-> zty[i][1]]
         : zty \in {MatMul(Transpose(generateZmatrix(x, m), m + 1),
                           ColumnVector(y), 1)}})

\* polynomialRegressionInverseMatrix: the coefficients; the error of Inverse
\* is not looked at and the error returned is always nil
polynomialRegressionInverseMatrix(m, x, y) ==
    The({[i \in 1..(m + 1) |-> afinal[i][1]]
         : afinal \in {MatMul(Inverse(ZtZ(m, x)),
                              ColumnVector(Zty(m, x, y)), 1)}})

\* SolvePolynomialReverseMatrix: the PolynomialSolution and the error it
\* returns.  It panics when y is shorter than x; with no points at all
\* gonum panics on the zero length of the matrices or not (zeroLengthPanics),
\* depending on its version.
SolvePolynomialReverseMatrix(x, y, m, zeroLengthPanics) ==
    IF Len(y) < Len(x) \/ (Len(x) = 0 /\ zeroLengthPanics)
    THEN [panic |-> TRUE, err |-> Nil,
          sol |-> [X |-> <<>>, Y |-> <<>>, Degree |-> m, A |-> <<>>,
                   R2 |-> Zero]]
    ELSE The({
        The({
            [panic |-> FALSE, err |-> Nil,
             sol |-> [fit EXCEPT !.R2 =
                r2Calc(fit.X, fit.Y, PolynomialFunction(fit))]]
            : fit \in {[copy EXCEPT !.A =
                  polynomialRegressionInverseMatrix(m, copy.X, copy.Y)]}})
        : copy \in {[X |-> x, Y |-> [i \in 1..Len(x) |-> y[i]],
                     Degree |-> m, A |-> <<>>, R2 |-> Zero]}})

\* a call of SolvePolynomialReverseMatrix(xo, yo, m)
CallSolvePolynomialReverseMatrix(m) ==
    /\ last = NoCall
    /\ last' = [NoCall EXCEPT !.fn = "SolvePolynomialReverseMatrix", !.m = m]
    /\ \E zeroLengthPanics \in BOOLEAN :
          psol' = SolvePolynomialReverseMatrix(xo, yo, m, zeroLengthPanics)
    /\ reg' = NoReg /\ tsol' = NoTsol /\ r2' = Zero
    /\ UNCHANGED <<xo, yo>>
    /\ UNCHANGED driverVars
    /\ UNCHANGED auxVars

ReverseNext == \E m \in 0..MaxDegree : CallSolvePolynomialReverseMatrix(m)

SpecReverse == Init /\ [][ReverseNext]_vars

\* the moment matrix of degree m of x is invertible and the solution of the
\* normal equations is made of computed rational values
WellConditioned(m, x, y) ==
    /\ Len(x) >= m + 1 /\ Len(y) = Len(x)
    /\ AllFinite(MomentMatrix(m, x), MomentVector(m, x, y))
    /\ IsRat(Det(MomentMatrix(m, x))) /\ ~IsZero(Det(MomentMatrix(m, x)))

\* C18: for every degree m and data with n >= m+1 and an invertible moment
\* matrix, SolvePolynomialReverseMatrix returns the coefficient vector
\* SolvePolynomial returns: Z^T Z of generateZmatrix equals the moment matrix
\* of PolynomialRegression and Z^T y equals its right-hand-side vector.
C18_ReverseMatrixAgrees ==
    (last.fn = "SolvePolynomialReverseMatrix" /\ WellConditioned(last.m, xo, yo)) =>
        /\ ZtZ(last.m, xo) = MomentMatrix(last.m, xo)
        /\ Zty(last.m, xo, yo) = MomentVector(last.m, xo, yo)
        /\ psol.err = Nil /\ ~psol.panic
        /\ (\A i \in 1..(last.m + 1) : ~IsUnk(psol.sol.A[i])) =>
              psol.sol.A = SolvePolynomial(xo, yo, last.m).sol.A

\* the parabola through (0,1), (1,0), (2,1): 1 - 2x + x^2
C18_Witness ==
    /\ last.fn = "SolvePolynomialReverseMatrix" /\ last.m = 2
    /\ xo = <<Num(0), Num(1), Num(2)>> /\ yo = <<Num(1), Num(0), Num(1)>>
    /\ WellConditioned(2, xo, yo)
    /\ psol.sol.A = <<Num(1), Num(-2), Num(1)>>
    /\ psol.sol.A = SolvePolynomial(xo, yo, 2).sol.A

----------------------------------------------------------------------------
(* The result of SolvePolynomial.                                            *)

\* c[i] + x * (c[i+1] + x * (...)): the polynomial with the coefficients c,
\* constant term first, by Horner's rule
RECURSIVE HornerFrom(_, _, _)
HornerFrom(c, x, i) ==
    IF i > Len(c) THEN Zero
    ELSE FAdd(c[i], FMul(x, HornerFrom(c, x, i + 1)))

\* the values at the x of the polynomial with the coefficients c
PolyValues(c, x) == [k \in 1..Len(x) |-> HornerFrom(c, x[k], 1)]

\* the sum over the points of (p(x_k) - y_k) * x_k^i
Residual(c, x, y, i) ==
    SumTo([k \in 1..Len(x) |->
              FMul(FSub(HornerFrom(c, x[k], 1), y[k]), Pow(x[k], Num(i)))],
          Len(x))

\* SolvePolynomial returned without an error, from computed rational values
PolySolved ==
    /\ last.fn = "SolvePolynomial" /\ ~psol.panic /\ psol.err = Nil
    /\ AllRat(xo) /\ AllRat(yo)

\* C19: on success SolvePolynomial(x, y, degree) returns a coefficient
\* vector of exactly degree+1 entries ordered low-to-high (the polynomial
\* with these coefficients, constant term first, is the least squares fit:
\* its residuals are orthogonal to every power 0..degree of x),
\* PolynomialFunction evaluates the sum of A[i] * x^i, and R2 is r2Calc of
\* the raw data and PolynomialFunction.
C19_PolynomialSolution ==
    (last.fn = "SolvePolynomial" /\ ~psol.panic /\ psol.err = Nil) =>
        /\ Len(psol.sol.A) = last.m + 1
        /\ psol.sol.Degree = last.m
        /\ psol.sol.X = xo /\ psol.sol.Y = yo
        /\ (PolySolved /\ AllRat(psol.sol.A)) =>
              /\ \A k \in 1..Len(xo) :
                    Call(PolynomialFunction(psol.sol), xo[k]) =
                        HornerFrom(psol.sol.A, xo[k], 1)
              /\ ~IsZero(Det(MomentMatrix(last.m, xo))) =>
                    \A i \in 0..last.m :
                        IsRat(Residual(psol.sol.A, xo, yo, i)) =>
                            IsZero(Residual(psol.sol.A, xo, yo, i))
              /\ IsRat(psol.sol.R2) =>
                    psol.sol.R2 =
                        FDiv(SumSquares(PolyValues(psol.sol.A, xo), Mean(yo)),
                             SumSquares(yo, Mean(yo)))

\* the points (0,1), (1,0), (2,1) fitted with degree 2: 1 - 2x + x^2, R2 = 1
C19_Witness ==
    /\ PolySolved /\ last.m = 2
    /\ xo = <<Num(0), Num(1), Num(2)>> /\ yo = <<Num(1), Num(0), Num(1)>>
    /\ psol.sol.A = <<Num(1), Num(-2), Num(1)>>
    /\ psol.sol.R2 = One
    /\ IsZero(Residual(psol.sol.A, xo, yo, 1))

----------------------------------------------------------------------------
(* Package csvutil: the columns of CSV files as floats.  A file is the      *)
(* sequence of the records encoding/csv reads from it.                       *)

\* the number of records of a file
MaxRows == 3

\* the records of the files: cells that parse as a float, a cell with
\* spaces around the number, zero cells, cells that do not parse, a record
\* with one field only
CsvRecords == {<<"x", "x">>, <<"1", " 2 ">>, <<"0", "1">>, <<"1", "0">>,
               <<"x", "1">>, <<"1", "1">>, <<"0", "0">>, <<"1">>}

\* the files of at most n records
RECURSIVE CsvFilesOf(_)
CsvFilesOf(n) ==
    IF n = 0 THEN {<<>>}
    ELSE CsvFilesOf(n - 1) \cup
         {Append(f, r) : f \in {g \in CsvFilesOf(n - 1) : Len(g) = n - 1},
                         r \in CsvRecords}

\* a second file of the list of files
SecondFile == << <<"x", "x">>, <<"1", "1">> >>

\* the lists of columns asked for
ColumnLists == {<<1, 2>>, <<2, 1>>, <<1>>, <<0, 2>>}

\* fmt.Errorf("Column index error: %d <= 0!", c)
ColumnIndexError(c) == "Column index error: " \o ToString(c) \o " <= 0!"
\* fmt.Errorf("Row index error: %d <= 0!", r)
RowIndexError(r) == "Row index error: " \o ToString(r) \o " <= 0!"
LengthsError == "Column lenghts do not match"
SyntaxError == "invalid syntax"

\* strings.TrimSpace
TrimSpace(s) == IF s = " 2 " THEN "2" ELSE s

\* strconv.ParseFloat(s, 64)
ParseFloat(s) ==
    CASE s = "0" -> [v |-> Num(0), err |-> Nil]
      [] s = "1" -> [v |-> Num(1), err |-> Nil]
      [] s = "2" -> [v |-> Num(2), err |-> Nil]
      [] OTHER -> [v |-> Zero, err |-> SyntaxError]

\* the last index of the request that is <= 0
FirstBad_last(request) ==
    request[CHOOSE i \in 1..Len(request) :
                /\ request[i] <= 0
                /\ \A j \in (i + 1)..Len(request) : request[j] > 0]

\* the first index of the request that is <= 0
FirstBad(request) ==
    request[CHOOSE i \in 1..Len(request) :
                /\ request[i] <= 0
                /\ \A j \in 1..(i - 1) : request[j] > 0]

\* the field of a record taken whatever the column is
Field_first(record, c) == record[1]

\* record[column-1]: the field of the column, columns counted from 1
Field(record, c) == record[c]

\* the loop of getCSVColumns from the record row on: the record is read and
\* its field of each column it has is appended to the column
RECURSIVE getCSVColumnsLoop(_, _, _, _)
getCSVColumnsLoop(records, cs, row, columnsData) ==
    IF row > Len(records)
    THEN [err |-> Nil, data |-> columnsData, read |-> row - 1]
    ELSE getCSVColumnsLoop(records, cs, row + 1,
            [i \in 1..Len(cs) |->
                IF Len(records[row]) >= cs[i]
                THEN Append(columnsData[i], Field(records[row], cs[i]))
                ELSE columnsData[i]])

\* getCSVColumns(reader, columns...): the query is verified, then every
\* record is read
getCSVColumns(records, cs) ==
    IF \E i \in 1..Len(cs) : cs[i] <= 0
    THEN [err |-> ColumnIndexError(FirstBad(cs)), data |-> <<>>, read |-> 0]
    ELSE getCSVColumnsLoop(records, cs, 1, [i \in 1..Len(cs) |-> <<>>])

\* GetCSVColumns from the file k on, with the columns read so far
RECURSIVE GetCSVColumnsFrom(_, _, _, _)
GetCSVColumnsFrom(c, cs, k, columnsData) ==
    IF k > Len(c.Files) THEN [panic |-> FALSE, err |-> Nil, data |-> columnsData]
    ELSE LET fs == getCSVColumns(c.Files[k], cs)
         IN IF fs.err # Nil
            THEN [panic |-> FALSE, err |-> fs.err, data |-> columnsData]
            ELSE IF Len(fs.data) = 0
            THEN [panic |-> TRUE, err |-> Nil, data |-> <<>>]
            ELSE IF Len(fs.data[1]) = 0
            THEN GetCSVColumnsFrom(c, cs, k + 1, columnsData)
            ELSE IF \E i \in 1..Len(fs.data) : Len(fs.data[i]) # Len(fs.data[1])
            THEN [panic |-> FALSE, err |-> LengthsError, data |-> <<>>]
            ELSE GetCSVColumnsFrom(c, cs, k + 1,
                    [i \in 1..Len(cs) |->
                        columnsData[i] \o
                        (IF c.NoHeader THEN fs.data[i] ELSE Tail(fs.data[i]))])

\* CSVFiles.GetCSVColumns
GetCSVColumns(c, cs) ==
    GetCSVColumnsFrom(c, cs, 1, [i \in 1..Len(cs) |-> <<>>])

\* the floats of a column of strings with the zeros always kept
FloatsOf_keepZeros(cSlice, filterZero) ==
    LET parsed == [j \in 1..Len(cSlice) |-> ParseFloat(TrimSpace(cSlice[j]))]
        kept == SelectSeq(parsed, LAMBDA r : r.err = Nil)
    IN [j \in 1..Len(kept) |-> kept[j].v]

\* the floats of a column of strings: the cells that parse, without the
\* zeros when FilterZero is set
FloatsOf(cSlice, filterZero) ==
    LET parsed == [j \in 1..Len(cSlice) |-> ParseFloat(TrimSpace(cSlice[j]))]
        kept == SelectSeq(parsed, LAMBDA r :
                    r.err = Nil /\ (~filterZero \/ ~IsZero(r.v)))
    IN [j \in 1..Len(kept) |-> kept[j].v]

\* CSVFiles.GetFloat64Columns
GetFloat64Columns(c, cs) ==
    LET cSlices == GetCSVColumns(c, cs)
    IN IF cSlices.panic THEN cSlices
       ELSE IF cSlices.err # Nil
       THEN [panic |-> FALSE, err |-> cSlices.err, data |-> <<>>]
       ELSE [panic |-> FALSE, err |-> Nil,
             data |-> [i \in 1..Len(cs) |->
                         FloatsOf(cSlices.data[i], c.FilterZero)]]

CsvInit ==
    /\ \E f \in CsvFilesOf(MaxRows), more \in {<<>>, <<SecondFile>>},
          nh \in BOOLEAN, fz \in BOOLEAN :
          cf = [Files |-> <<f>> \o more, NoHeader |-> nh, FilterZero |-> fz]
    /\ columns \in ColumnLists
    /\ fcols = NoColumns
    /\ nread = 0
    /\ FnIdle /\ SeqIdle /\ ConcIdle /\ TrimIdle /\ opts = NoOptions
    /\ xo = <<>> /\ yo = <<>>
    /\ last = NoCall /\ reg = NoReg /\ tsol = NoTsol /\ psol = NoPsol
    /\ r2 = Zero
    /\ DriverIdle

\* a call of cf.GetFloat64Columns(columns...)
CallGetFloat64Columns ==
    /\ last = NoCall
    /\ last' = [NoCall EXCEPT !.fn = "GetFloat64Columns"]
    /\ fcols' = GetFloat64Columns(cf, columns)
    /\ UNCHANGED <<cf, columns, nread>>
    /\ UNCHANGED <<xo, yo, reg, tsol, psol, r2>>
    /\ UNCHANGED <<driverVars, fnVars, seqVars, concVars, trimVars, opts>>

\* a call of cf.GetCSVColumns(columns...)
CallGetCSVColumns ==
    /\ last = NoCall
    /\ last' = [NoCall EXCEPT !.fn = "GetCSVColumns"]
    /\ fcols' = GetCSVColumns(cf, columns)
    /\ UNCHANGED <<cf, columns, nread>>
    /\ UNCHANGED <<xo, yo, reg, tsol, psol, r2>>
    /\ UNCHANGED <<driverVars, fnVars, seqVars, concVars, trimVars, opts>>

CsvNext == CallGetFloat64Columns \/ CallGetCSVColumns

SpecCsv == CsvInit /\ [][CsvNext]_vars

\* C20: GetFloat64Columns errors out if the column lengths are different:
\* whenever it returns a nil error for several requested columns, all the
\* float columns it returns have the same length, whatever FilterZero is and
\* also when some cells are zero or do not parse as floats.
C20_EqualLengths ==
    (/\ last.fn = "GetFloat64Columns" /\ ~fcols.panic /\ fcols.err = Nil
     /\ Len(columns) >= 2) =>
        \A i, j \in 1..Len(fcols.data) :
            Len(fcols.data[i]) = Len(fcols.data[j])

\* the entries of column c of a file: the c-th field of the records that
\* have one
ColumnOf(file, c) ==
    LET rs == SelectSeq(file, LAMBDA r : Len(r) >= c)
    IN [j \in 1..Len(rs) |-> rs[j][c]]

\* the entries of column c of a file without the header, if there is one
EntriesOf(file, c, noHeader) ==
    IF noHeader \/ ColumnOf(file, c) = <<>> THEN ColumnOf(file, c)
    ELSE Tail(ColumnOf(file, c))

\* the entries of column c of the first k files, in file order
RECURSIVE ConcatColumn(_, _, _, _)
ConcatColumn(files, c, noHeader, k) ==
    IF k = 0 THEN <<>>
    ELSE ConcatColumn(files, c, noHeader, k - 1) \o
         EntriesOf(files[k], c, noHeader)

\* within one file a requested column's length differs from the first
\* requested column's non-zero length
LengthsDiffer ==
    \E k \in 1..Len(cf.Files) : \E i \in 1..Len(columns) :
        /\ Len(ColumnOf(cf.Files[k], columns[1])) # 0
        /\ Len(ColumnOf(cf.Files[k], columns[i])) #
              Len(ColumnOf(cf.Files[k], columns[1]))

\* C21: GetCSVColumns over a list of files returns, for each requested
\* column, the concatenation in file order of that column's entries from
\* every file, without the first entry of each file (the header) unless
\* NoHeader is set; it fails with 'Column lenghts do not match' and returns
\* no data when, within one file, a requested column's length differs from
\* the first requested column's non-zero length.
C21_ColumnsConcatenated ==
    (/\ last.fn = "GetCSVColumns"
     /\ \A i \in 1..Len(columns) : columns[i] >= 1) =>
        IF LengthsDiffer
        THEN fcols.err = LengthsError /\ fcols.data = <<>>
        ELSE /\ fcols.err = Nil
             /\ \A i \in 1..Len(columns) :
                   fcols.data[i] =
                       ConcatColumn(cf.Files, columns[i], cf.NoHeader,
                                    Len(cf.Files))

\* the cells that are the text of a float, spaces around it allowed, and
\* the float they are the text of
NumberCells == {"0", "1", " 2 "}
CellValue(s) ==
    CASE s = "0" -> Num(0) [] s = "1" -> Num(1) [] s = " 2 " -> Num(2)

\* the values of the first n cells that are numbers, in order, without the
\* zeros when dropZeros is set
RECURSIVE ValuesOf(_, _, _)
ValuesOf(cells, dropZeros, n) ==
    IF n = 0 THEN <<>>
    ELSE IF cells[n] \in NumberCells /\
            ~(dropZeros /\ CellValue(cells[n]) = Num(0))
    THEN Append(ValuesOf(cells, dropZeros, n - 1), CellValue(cells[n]))
    ELSE ValuesOf(cells, dropZeros, n - 1)

\* C22: with FilterZero set, GetFloat64Columns returns for each column
\* exactly the subsequence, in order, of the parsed values that are not 0
\* (no returned value is 0); with FilterZero unset it returns every parsable
\* cell in order, zeros included; a cell that does not parse as a float is
\* skipped and never makes the call fail.
C22_FilterZero ==
    (last.fn = "GetFloat64Columns" /\ ~fcols.panic) =>
        /\ fcols.err = GetCSVColumns(cf, columns).err
        /\ fcols.err = Nil =>
              \A i \in 1..Len(columns) :
                 /\ fcols.data[i] =
                       ValuesOf(GetCSVColumns(cf, columns).data[i],
                                cf.FilterZero,
                                Len(GetCSVColumns(cf, columns).data[i]))
                 /\ cf.FilterZero =>
                       \A j \in 1..Len(fcols.data[i]) :
                           fcols.data[i][j] # Num(0)

\* a column with a cell that does not parse, a zero and a number, and a
\* column with a number with spaces around it, read with FilterZero set
C22_Witness ==
    /\ last.fn = "GetFloat64Columns"
    /\ cf = [Files |-> << << <<"x", "1">>, <<"0", "1">>, <<"1", " 2 ">> >> >>,
             NoHeader |-> TRUE, FilterZero |-> TRUE]
    /\ columns = <<1, 2>>
    /\ fcols = [panic |-> FALSE, err |-> Nil,
                data |-> << <<Num(1)>>, <<Num(1), Num(1), Num(2)>> >>]

----------------------------------------------------------------------------
(* trimSlice of the command line driver.                                     *)

\* validateMinInt: the error, or nil
validateMinInt(min, value) ==
    IF value < min THEN "can not be less than" ELSE Nil

\* validateMaxInt: the error, or nil
validateMaxInt(max, value) ==
    IF value > max THEN "can not be bigger than" ELSE Nil

\* trimSlice without the test of trimStart + trimEnd
trimSlice_noSumCheck(x, trimStart, trimEnd) ==
    IF validateMinInt(0, trimStart) # Nil
    THEN [err |-> "trimStart can not be less than", data |-> <<>>]
    ELSE IF validateMaxInt(Len(x) - 1, trimStart) # Nil
    THEN [err |-> "trimStart can not be bigger than", data |-> <<>>]
    ELSE IF validateMinInt(0, trimEnd) # Nil
    THEN [err |-> "trimEnd can not be less than", data |-> <<>>]
    ELSE IF validateMaxInt(Len(x) - 1, trimEnd) # Nil
    THEN [err |-> "trimEnd can not be bigger than", data |-> <<>>]
    ELSE [err |-> Nil, data |-> SubSeq(x, trimStart + 1, Len(x) - trimEnd)]

\* trimSlice - It will trim the start and end of a slice.
trimSlice(x, trimStart, trimEnd) ==
    IF validateMinInt(0, trimStart) # Nil
    THEN [err |-> "trimStart can not be less than", data |-> <<>>]
    ELSE IF validateMaxInt(Len(x) - 1, trimStart) # Nil
    THEN [err |-> "trimStart can not be bigger than", data |-> <<>>]
    ELSE IF validateMinInt(0, trimEnd) # Nil
    THEN [err |-> "trimEnd can not be less than", data |-> <<>>]
    ELSE IF validateMaxInt(Len(x) - 1, trimEnd) # Nil
    THEN [err |-> "trimEnd can not be bigger than", data |-> <<>>]
    ELSE IF validateMaxInt(Len(x) - 1, trimStart + trimEnd) # Nil
    THEN [err |-> "trimStart plus trimEnd can not be bigger than", data |-> <<>>]
    ELSE [err |-> Nil, data |-> SubSeq(x, trimStart + 1, Len(x) - trimEnd)]

\* the slices handed to trimSlice: 0..MaxLen elements, all different or all
\* the same
TrimSlices ==
    {[i \in 1..n |-> Num(i)] : n \in 0..MaxLen} \cup
    {[i \in 1..n |-> Num(0)] : n \in 1..MaxLen}

TrimInit ==
    /\ trimIn \in [x : TrimSlices, trimStart : -1..(MaxLen + 1),
                   trimEnd : -1..(MaxLen + 1)]
    /\ trimRes = NoTrim
    /\ FnIdle /\ SeqIdle /\ ConcIdle /\ CsvIdle /\ opts = NoOptions
    /\ xo = <<>> /\ yo = <<>>
    /\ last = NoCall /\ reg = NoReg /\ tsol = NoTsol /\ psol = NoPsol
    /\ r2 = Zero
    /\ DriverIdle

\* a call of trimSlice(x, trimStart, trimEnd)
CallTrimSlice ==
    /\ last = NoCall
    /\ last' = [NoCall EXCEPT !.fn = "trimSlice"]
    /\ trimRes' = trimSlice(trimIn.x, trimIn.trimStart, trimIn.trimEnd)
    /\ UNCHANGED trimIn
    /\ UNCHANGED <<xo, yo, reg, tsol, psol, r2>>
    /\ UNCHANGED <<driverVars, fnVars, seqVars, concVars, csvVars, opts>>

TrimNext == CallTrimSlice

SpecTrim == TrimInit /\ [][TrimNext]_vars

\* C23: for a slice of any length n >= 0, trimSlice(x, trimStart, trimEnd)
\* returns (x[trimStart : n-trimEnd], nil) exactly when trimStart >= 0,
\* trimEnd >= 0 and trimStart + trimEnd <= n-1, and (nil, error) otherwise
\* (always for n = 0); a successful result has length
\* n - trimStart - trimEnd >= 1 and keeps the elements in order.
C23_TrimSlice ==
    last.fn = "trimSlice" =>
        LET n == Len(trimIn.x)
            s == trimIn.trimStart
            e == trimIn.trimEnd
        IN IF s >= 0 /\ e >= 0 /\ s + e <= n - 1
           THEN /\ trimRes.err = Nil
                /\ Len(trimRes.data) = n - s - e
                /\ Len(trimRes.data) >= 1
                /\ \A i \in 1..(n - s - e) : trimRes.data[i] = trimIn.x[s + i]
           ELSE trimRes.err # Nil /\ trimRes.data = <<>>

\* [1, 2, 3] trimmed by one element at each end
C23_Witness ==
    /\ last.fn = "trimSlice"
    /\ trimIn = [x |-> <<Num(1), Num(2), Num(3)>>, trimStart |-> 1,
                 trimEnd |-> 1]
    /\ trimRes = [err |-> Nil, data |-> <<Num(2)>>]

----------------------------------------------------------------------------
(* The system PolynomialRegression solves.                                   *)

\* x^k as k multiplications, 1 for k = 0
RECURSIVE TimesItself(_, _)
TimesItself(x, k) == IF k = 0 THEN One ELSE FMul(TimesItself(x, k - 1), x)

\* the sum over the points of w_l * x_l^k
RECURSIVE PowerSum(_, _, _, _)
PowerSum(x, w, k, n) ==
    IF n = 0 THEN Zero
    ELSE FAdd(PowerSum(x, w, k, n - 1), FMul(w[n], TimesItself(x[n], k)))

\* C24: for every m >= 0 and data with n >= m+1, the system
\* PolynomialRegression solves has matrix element (i, j) = sum over l of
\* x_l^(i+j) for all i, j in 0..m (x^0 = 1 also for x = 0, so element (0,0)
\* is n), vector element i = sum over l of y_l * x_l^i, and the matrix is
\* symmetric: every (i, j) with j > i is filled and equals (j, i).
C24_NormalEquations ==
    (/\ last.fn = "PolynomialRegression" /\ ~reg.panic
     /\ Len(xo) >= last.m + 1 /\ AllRat(xo) /\ AllRat(yo)) =>
        /\ Len(reg.a) = last.m + 1 /\ Len(reg.b) = last.m + 1
        /\ reg.a[1][1] = Num(Len(xo))
        /\ \A i, j \in 0..last.m :
              /\ Len(reg.a[i + 1]) = last.m + 1
              /\ reg.a[i + 1][j + 1] = reg.a[j + 1][i + 1]
              /\ IsRat(reg.a[i + 1][j + 1]) =>
                    reg.a[i + 1][j + 1] =
                        PowerSum(xo, [l \in 1..Len(xo) |-> One], i + j, Len(xo))
        /\ \A i \in 0..last.m :
              IsRat(reg.b[i + 1]) =>
                  reg.b[i + 1] = PowerSum(xo, yo, i, Len(xo))

\* the system of degree 2 for the points (0,1), (1,0), (2,1)
C24_Witness ==
    /\ last.fn = "PolynomialRegression" /\ last.m = 2
    /\ xo = <<Num(0), Num(1), Num(2)>> /\ yo = <<Num(1), Num(0), Num(1)>>
    /\ reg.a = << <<Num(3), Num(3), Num(5)>>, <<Num(3), Num(5), Num(9)>>,
                  <<Num(5), Num(9), Num(17)>> >>
    /\ reg.b = <<Num(2), Num(2), Num(4)>>

----------------------------------------------------------------------------
(* main from its start: the options select the mode, the mode loads the    *)
(* columns of the file, and the regression mode goes on with the plots and  *)
(* fits of DriverNext.                                                      *)

Header == <<"x", "x">>
T1 == "1970-01-01T00:00:01Z"
T2 == "1970-01-01T00:00:02Z"

\* the file given on the command line: clean numbers, a y cell that does not
\* parse, an x cell that does not parse, zero cells, a record of one field,
\* times in the x column (all valid, one invalid, with a y cell that does
\* not parse), an empty file
MainFiles == {
    <<Header, <<"0", "1">>, <<"1", " 2 ">>, <<"2", "1">> >>,
    <<Header, <<"0", "1">>, <<"1", "x">>, <<"2", "1">> >>,
    <<Header, <<"0", "1">>, <<"x", "1">>, <<"2", "2">> >>,
    <<Header, <<"0", "1">>, <<"1", "1">>, <<"2", "2">> >>,
    <<Header, <<"1">>, <<"1", "1">> >>,
    <<Header, <<T1, "1">>, <<T2, "2">> >>,
    <<Header, <<T1, "1">>, <<"x", "2">>, <<T2, "1">> >>,
    <<Header, <<T1, "1">>, <<T2, "x">> >>,
    <<>> }

\* the values of --trim-start and --trim-end
TrimOptions == {<<0, 0>>, <<1, 0>>, <<0, 1>>, <<1, 1>>}

\* time.Parse(time.RFC3339, s) and Time.Unix of its result
ParseTime(s) ==
    CASE s = T1 -> [v |-> Num(1), err |-> Nil]
      [] s = T2 -> [v |-> Num(2), err |-> Nil]
      [] OTHER -> [v |-> Zero, err |-> SyntaxError]

\* the x column of the time plot: the cells that parse as a time
TimesOf(cSlice) ==
    LET parsed == [j \in 1..Len(cSlice) |-> ParseTime(TrimSpace(cSlice[j]))]
        kept == SelectSeq(parsed, LAMBDA r : r.err = Nil)
    IN [j \in 1..Len(kept) |-> kept[j].v]

\* the cells of a column that time.Parse rejects, one ERROR line each
RejectedTimes(cSlice) ==
    Len(SelectSeq(cSlice, LAMBDA e : ParseTime(TrimSpace(e)).err # Nil))

\* the cells of a column that strconv.ParseFloat rejects, one ERROR line each
RejectedFloats(cSlice) ==
    Len(SelectSeq(cSlice, LAMBDA e : ParseFloat(TrimSpace(e)).err # Nil))

\* the ERROR lines GetFloat64Columns prints for the columns cs
RECURSIVE ParseErrorLines(_, _, _)
ParseErrorLines(c, cs, i) ==
    IF i > Len(cs) THEN 0
    ELSE RejectedFloats(GetCSVColumns(c, cs).data[i])
         + ParseErrorLines(c, cs, i + 1)

\* printCSVColumnStats(files, column): the error of the first file whose
\* GetFloat64Columns fails
RECURSIVE printCSVColumnStats(_, _, _)
printCSVColumnStats(c, column, k) ==
    IF k > Len(c.Files) THEN [err |-> Nil, lines |-> 0]
    ELSE LET one == [c EXCEPT !.Files = <<c.Files[k]>>]
             fs == GetFloat64Columns(one, <<column>>)
         IN IF fs.err # Nil THEN [err |-> fs.err, lines |-> 0]
            ELSE LET rest == printCSVColumnStats(c, column, k + 1)
                 IN [err |-> rest.err,
                     lines |-> ParseErrorLines(one, <<column>>, 1)
                               + rest.lines]

\* the columns main asks for: -x 1 -y 2, --column 1
xColumn == 1
yColumns == <<2>>
column == 1

MainInit ==
    /\ \E f \in MainFiles, nh \in BOOLEAN, fz \in BOOLEAN :
          cf = [Files |-> <<f>>, NoHeader |-> nh, FilterZero |-> fz]
    /\ \E sh \in BOOLEAN, ox \in BOOLEAN, oy \in BOOLEAN, xt \in BOOLEAN,
          t \in TrimOptions :
          opts = [show |-> sh, x |-> ox, y |-> oy, xtime |-> xt,
                  trimStart |-> t[1], trimEnd |-> t[2]]
    /\ columns = <<>> /\ fcols = NoColumns /\ nread = 0
    /\ FnIdle /\ SeqIdle /\ ConcIdle /\ TrimIdle
    /\ xo = <<>> /\ yo = <<>>
    /\ last = NoCall /\ reg = NoReg /\ r2 = Zero
    /\ tsol = NoTsol /\ psol = NoPsol
    /\ pc = "start"
    /\ regression \in BOOLEAN
    /\ review \in BOOLEAN
    /\ degree \in 0..MaxDegree
    /\ li = 0 /\ err = Nil /\ stderr = 0 /\ fitted = <<>> /\ status = -1

\* what a step of main before the plots leaves alone
MainFrame ==
    /\ UNCHANGED <<tsol, psol, regression, review, degree, li, fitted>>
    /\ UNCHANGED pkgVars
    /\ UNCHANGED <<fnVars, seqVars, concVars, trimVars, opts>>
    /\ UNCHANGED <<cf, nread>>

\* os.Exit(code) after n ERROR lines, e the last error
Exit(code, e, n) ==
    /\ pc' = "exit" /\ status' = code
    /\ err' = e /\ stderr' = stderr + n

\* --show-header or --show-data: PrintCSVRows, then os.Exit(1) in every case
Inspect ==
    /\ pc = "start" /\ opts.show
    /\ Exit(1, Nil, 0)
    /\ UNCHANGED <<xo, yo, columns, fcols>>
    /\ MainFrame

\* -x, -y and --xtime: the x column read as times, the y column as floats,
\* both trimmed, the error of the trim of y dropped
LoadTime ==
    /\ pc = "start" /\ ~opts.show /\ opts.x /\ opts.y /\ opts.xtime
    /\ LET cs == GetCSVColumns(cf, <<xColumn>>)
           xs == TimesOf(cs.data[1])
           bad == RejectedTimes(cs.data[1])
           xTrimmed == trimSlice(xs, opts.trimStart, opts.trimEnd)
           ys == GetFloat64Columns(cf, yColumns)
           yTrimmed == trimSlice(ys.data[1], opts.trimStart, opts.trimEnd)
       IN IF cs.err # Nil
          THEN /\ Exit(1, cs.err, 1)
               /\ columns' = <<xColumn>> /\ fcols' = cs
               /\ UNCHANGED <<xo, yo>>
          ELSE IF xTrimmed.err # Nil
          THEN /\ Exit(1, xTrimmed.err, bad + 1)
               /\ columns' = <<xColumn>> /\ fcols' = cs
               /\ UNCHANGED <<xo, yo>>
          ELSE IF ys.err # Nil
          THEN /\ Exit(1, ys.err, bad + 1)
               /\ columns' = yColumns /\ fcols' = ys
               /\ UNCHANGED <<xo, yo>>
          ELSE /\ pc' = "plotTime"
               /\ xo' = xTrimmed.data /\ yo' = yTrimmed.data
               /\ columns' = yColumns /\ fcols' = ys
               /\ err' = Nil
               /\ stderr' = stderr + bad
                                   + ParseErrorLines(cf, yColumns, 1)
               /\ UNCHANGED status
    /\ MainFrame

\* regression.PlotTimeData(xTrimmed, sYTrimmed, ...), which reads y[j] for
\* every index of x and whose result is dropped, then printCSVColumnStats of
\* the first y column and the return from main
PlotTime ==
    /\ pc = "plotTime"
    /\ IF Len(yo) < Len(xo)
       THEN pc' = "panic" /\ status' = 2 /\ UNCHANGED <<err, stderr>>
       ELSE LET st == printCSVColumnStats(cf, yColumns[1], 1)
            IN IF st.err # Nil
               THEN Exit(1, st.err, st.lines + 1)
               ELSE Exit(0, Nil, st.lines)
    /\ UNCHANGED <<xo, yo, columns, fcols>>
    /\ MainFrame

\* -x and -y without --xtime: the columns x and y read as floats in one
\* call, both trimmed, the error of the trim of y dropped
LoadRegression ==
    /\ pc = "start" /\ ~opts.show /\ opts.x /\ opts.y /\ ~opts.xtime
    /\ LET query == <<xColumn>> \o yColumns
           sliceDatasets == GetFloat64Columns(cf, query)
           xTrimmed == trimSlice(sliceDatasets.data[1],
                                 opts.trimStart, opts.trimEnd)
           yTrimmed == trimSlice(sliceDatasets.data[2],
                                 opts.trimStart, opts.trimEnd)
       IN /\ columns' = query /\ fcols' = sliceDatasets
          /\ IF sliceDatasets.err # Nil
             THEN Exit(1, sliceDatasets.err, 1) /\ UNCHANGED <<xo, yo>>
             ELSE IF xTrimmed.err # Nil
             THEN /\ Exit(1, xTrimmed.err,
                          ParseErrorLines(cf, query, 1) + 1)
                  /\ UNCHANGED <<xo, yo>>
             ELSE /\ pc' = "plotData"
                  /\ xo' = xTrimmed.data /\ yo' = yTrimmed.data
                  /\ err' = Nil
                  /\ stderr' = stderr + ParseErrorLines(cf, query, 1)
                  /\ UNCHANGED status
    /\ MainFrame

\* neither of the modes above: printCSVColumnStats of --column
ColumnStats ==
    /\ pc = "start" /\ ~opts.show /\ ~(opts.x /\ opts.y)
    /\ LET st == printCSVColumnStats(cf, column, 1)
       IN IF st.err # Nil
          THEN Exit(1, st.err, st.lines + 1)
          ELSE Exit(0, Nil, st.lines)
    /\ UNCHANGED <<xo, yo, columns, fcols>>
    /\ MainFrame

MainNext ==
    \/ Inspect
    \/ LoadTime
    \/ PlotTime
    \/ LoadRegression
    \/ ColumnStats
    \/ DriverNext

SpecMain == MainInit /\ [][MainNext]_vars

\* a pair (x, y) is about to be handed to PlotTimeData, PlotRegression,
\* SolveTransformation or SolvePolynomial
Handing == pc \in {"plotTime", "plotData", "fitNone", "fitList", "poly"}

\* C25: in every run of the driver each (x, y) pair handed to PlotRegression,
\* PlotTimeData, SolveTransformation or SolvePolynomial has len(x) = len(y),
\* so that none of them indexes y out of range.
C25_EqualLengthPairs ==
    /\ Handing => Len(xo) = Len(yo)
    /\ pc # "panic"

\* main is in the regression mode: -x and -y given, --xtime not given, and
\* neither --show-header nor --show-data
RegressionMode == ~opts.show /\ opts.x /\ opts.y /\ ~opts.xtime

\* a fit was attempted or is about to be
FitAttempted ==
    \/ pc \in {"fitNone", "fitList", "poly", "plotPoly"}
    \/ fitted # <<>>
    \/ tsol # NoTsol
    \/ psol # NoPsol

\* fits happen in the regression mode with --regression only, and the
\* polynomial plot only after a polynomial fit without error
C27_FitsOnlyOnRequest ==
    /\ FitAttempted => RegressionMode /\ regression
    /\ pc = "plotData" => RegressionMode
    /\ pc = "plotTime" => ~opts.show /\ opts.x /\ opts.y /\ opts.xtime
    /\ pc = "plotPoly" => psol.err = Nil /\ ~psol.panic

\* the data plot without --regression is followed by the exit with status
\* 0, and a polynomial fit that returns an error by the exit with status 1
C27_Step ==
    /\ (pc = "plotData" /\ ~regression /\ Len(yo) >= Len(xo)) =>
          /\ pc' = "exit" /\ status' = 0
          /\ ~FitAttempted'
    /\ (pc = "poly" /\ psol'.err # Nil) =>
          pc' = "exit" /\ status' = 1

----------------------------------------------------------------------------
(* getCSVColumns and getCSVRows on one reader: the records of one file and  *)
(* a request of column or row indexes.                                      *)

\* the requests: one index, two in both orders, an index twice, an index
\* past every record, one past the end of every file, requests with an
\* index that is not positive
Requests == {<<1>>, <<1, 2>>, <<2, 1>>, <<1, 1>>, <<3>>, <<MaxRows + 1, 1>>,
             <<0, 2>>, <<2, -1, 0>>}

\* the largest row asked for
RECURSIVE maxRowOf(_, _)
maxRowOf(rows, k) ==
    IF k = 0 THEN 0
    ELSE IF maxRowOf(rows, k - 1) < rows[k] THEN rows[k]
    ELSE maxRowOf(rows, k - 1)

\* the loop of getCSVRows that reads on until the end of the input
RECURSIVE getCSVRowsLoop_readAll(_, _, _, _, _)
getCSVRowsLoop_readAll(records, rows, maxRow, rowCounter, rowsData) ==
    IF rowCounter > Len(records)
    THEN [err |-> Nil, data |-> rowsData, read |-> rowCounter - 1]
    ELSE getCSVRowsLoop_readAll(records, rows, maxRow, rowCounter + 1,
            [i \in 1..Len(rows) |->
                IF rowCounter = rows[i]
                THEN rowsData[i] \o records[rowCounter]
                ELSE rowsData[i]])

\* the loop of getCSVRows at the row rowCounter: it ends after maxRow and at
\* the end of the input, else the record is read and appended to the entry
\* of every request of that row
RECURSIVE getCSVRowsLoop(_, _, _, _, _)
getCSVRowsLoop(records, rows, maxRow, rowCounter, rowsData) ==
    IF rowCounter > maxRow \/ rowCounter > Len(records)
    THEN [err |-> Nil, data |-> rowsData, read |-> rowCounter - 1]
    ELSE getCSVRowsLoop(records, rows, maxRow, rowCounter + 1,
            [i \in 1..Len(rows) |->
                IF rowCounter = rows[i]
                THEN rowsData[i] \o records[rowCounter]
                ELSE rowsData[i]])

\* getCSVRows(reader, rows...): the query is verified, then the records up
\* to the largest row are read
getCSVRows(records, rows) ==
    IF \E i \in 1..Len(rows) : rows[i] <= 0
    THEN [err |-> RowIndexError(FirstBad(rows)), data |-> <<>>, read |-> 0]
    ELSE getCSVRowsLoop(records, rows, maxRowOf(rows, Len(rows)), 1,
                        [i \in 1..Len(rows) |-> <<>>])

ReaderInit ==
    /\ \E f \in CsvFilesOf(MaxRows) :
          cf = [Files |-> <<f>>, NoHeader |-> FALSE, FilterZero |-> FALSE]
    /\ columns \in Requests
    /\ fcols = NoColumns
    /\ nread = 0
    /\ FnIdle /\ SeqIdle /\ ConcIdle /\ TrimIdle /\ opts = NoOptions
    /\ xo = <<>> /\ yo = <<>>
    /\ last = NoCall /\ reg = NoReg /\ tsol = NoTsol /\ psol = NoPsol
    /\ r2 = Zero
    /\ DriverIdle

\* what a call on the reader returned, as fcols and nread
Returns(res) ==
    /\ fcols' = [panic |-> FALSE, err |-> res.err, data |-> res.data]
    /\ nread' = res.read
    /\ UNCHANGED <<cf, columns>>
    /\ UNCHANGED <<xo, yo, reg, tsol, psol, r2>>
    /\ UNCHANGED <<driverVars, fnVars, seqVars, concVars, trimVars, opts>>

\* a call of getCSVColumns(reader, columns...) on the file
CallgetCSVColumns ==
    /\ last = NoCall
    /\ last' = [NoCall EXCEPT !.fn = "getCSVColumns"]
    /\ Returns(getCSVColumns(cf.Files[1], columns))

\* a call of getCSVRows(reader, columns...) on the file
CallgetCSVRows ==
    /\ last = NoCall
    /\ last' = [NoCall EXCEPT !.fn = "getCSVRows"]
    /\ Returns(getCSVRows(cf.Files[1], columns))

ReaderNext == CallgetCSVColumns \/ CallgetCSVRows

SpecReader == ReaderInit /\ [][ReaderNext]_vars

\* every index of the request is at least 1
AllPositive == \A i \in 1..Len(columns) : columns[i] >= 1

\* C28: for every requested column index c >= 1 getCSVColumns returns as
\* that column the c-th field of each record that has at least c fields, in
\* record order, the header record included; a column wider than every
\* record is an empty column, and the error is nil.
C28_ColumnFields ==
    (last.fn = "getCSVColumns" /\ AllPositive) =>
        /\ fcols.err = Nil
        /\ Len(fcols.data) = Len(columns)
        /\ \A i \in 1..Len(columns) :
              /\ fcols.data[i] = ColumnOf(cf.Files[1], columns[i])
              /\ (\A k \in 1..Len(cf.Files[1]) :
                     Len(cf.Files[1][k]) < columns[i]) =>
                    fcols.data[i] = <<>>
              /\ (cf.Files[1] # <<>> /\ Len(cf.Files[1][1]) >= columns[i]) =>
                    fcols.data[i][1] = cf.Files[1][1][columns[i]]

\* columns 2 and 1 of a file whose second record has one field
C28_Witness ==
    /\ last.fn = "getCSVColumns"
    /\ columns = <<2, 1>>
    /\ cf.Files[1] = << <<"x", "x">>, <<"1">>, <<"0", "1">> >>
    /\ fcols.err = Nil
    /\ fcols.data = << <<"x", "1">>, <<"x", "1", "0">> >>

\* C29: for every requested row index r >= 1 getCSVRows returns as that
\* entry the fields of the r-th record (row 1 is the header), in the order
\* the rows were requested; a row past the end of the input is an empty
\* entry, the error is nil, and no record after the largest requested row
\* is read.
C29_RowFields ==
    (last.fn = "getCSVRows" /\ AllPositive) =>
        /\ fcols.err = Nil
        /\ Len(fcols.data) = Len(columns)
        /\ \A i \in 1..Len(columns) :
              fcols.data[i] = IF columns[i] <= Len(cf.Files[1])
                              THEN cf.Files[1][columns[i]]
                              ELSE <<>>
        /\ \A i \in 1..Len(columns) : nread <= columns[i] \/
              \E j \in 1..Len(columns) : columns[j] > columns[i]
        /\ nread <= Len(cf.Files[1])

\* rows 2 and 1 of a file of three records: two records are read
C29_Witness ==
    /\ last.fn = "getCSVRows"
    /\ columns = <<2, 1>>
    /\ cf.Files[1] = << <<"x", "x">>, <<"1", " 2 ">>, <<"0", "1">> >>
    /\ fcols.err = Nil
    /\ fcols.data = << <<"1", " 2 ">>, <<"x", "x">> >>
    /\ nread = 2

\* C30: getCSVColumns and getCSVRows reject a request with an index <= 0:
\* the result is nil and the error is "Column index error: <c> <= 0!" or
\* "Row index error: <r> <= 0!" with the first such index, and no record
\* was read from the input.
C30_IndexRejected ==
    (last.fn \in {"getCSVColumns", "getCSVRows"} /\ ~AllPositive) =>
        /\ fcols.data = <<>>
        /\ nread = 0
        /\ columns = <<0, 2>> =>
              fcols.err = IF last.fn = "getCSVColumns"
                          THEN "Column index error: 0 <= 0!"
                          ELSE "Row index error: 0 <= 0!"
        /\ columns = <<2, -1, 0>> =>
              fcols.err = IF last.fn = "getCSVColumns"
                          THEN "Column index error: -1 <= 0!"
                          ELSE "Row index error: -1 <= 0!"
        /\ \E i \in 1..Len(columns) :
              /\ columns[i] <= 0
              /\ \A j \in 1..(i - 1) : columns[j] > 0
              /\ fcols.err = (IF last.fn = "getCSVColumns"
                              THEN "Column index error: "
                              ELSE "Row index error: ")
                             \o ToString(columns[i]) \o " <= 0!"

\* rows 2, -1, 0 asked of a file of three records
C30_Witness ==
    /\ last.fn = "getCSVRows"
    /\ columns = <<2, -1, 0>>
    /\ Len(cf.Files[1]) = 3
    /\ fcols.err = "Row index error: -1 <= 0!"
    /\ fcols.data = <<>>
    /\ nread = 0

============================================================================
